---- MODULE Spec2Model ----
(***************************************************************************)
(* Verification model of the auto-video-pipeline batch orchestrators:      *)
(*   tts_piper/tts_piper.py, tts_piper_weekly.py, tts_piper_addon.py       *)
(*   rvc/rvc_batch_infer.py, rvc_batch_infer_weekly.py, ..._addon.py       *)
(*   parsing/parse_week_json.py                                            *)
(* A run of an orchestrator is a sequence of steps separated by the        *)
(* blocking calls (child process, network request); a keyboard interrupt   *)
(* can end the run between any two steps.                                  *)
(***************************************************************************)
EXTENDS Integers, Sequences, FiniteSets, TLC

\* ------------------------------------------------------------- bounds
MaxItems == 2      \* files (txt / wav) per group directory
MaxRetries == 3    \* largest RETRIES setting
MaxVoices == 2     \* valid voices (onnx + json) per language

\* ------------------------------------------------------------- strings
\* A string is a sequence of tokens: path components, separators, "#", " ".
RECURSIVE Replace(_)
\* str.replace("\\", "/")
Replace(s) ==
    IF s = <<>> THEN <<>>
    ELSE <<(IF Head(s) = "\\" THEN "/" ELSE Head(s))>> \o Replace(Tail(s))

RECURSIVE PathStr(_, _)
\* str(Path(...)): the components joined by the separator of the platform
PathStr(parts, sep) ==
    IF Len(parts) <= 1 THEN parts
    ELSE <<Head(parts), sep>> \o PathStr(Tail(parts), sep)

RECURSIVE LStrip(_)
LStrip(s) == IF s # <<>> /\ Head(s) = " " THEN LStrip(Tail(s)) ELSE s

RECURSIVE RStrip(_)
RStrip(s) ==
    IF s # <<>> /\ s[Len(s)] = " " THEN RStrip(SubSeq(s, 1, Len(s) - 1)) ELSE s

\* str.strip()
Strip(s) == RStrip(LStrip(s))

\* str.startswith("#")
IsComment(s) == s # <<>> /\ Head(s) = "#"

Range(s) == {s[i] : i \in DOMAIN s}

\* ------------------------------------------------------------- input tree
Langs == {"en", "fi"}
AddonName == "addon"

\* a language directory whose name sorts before "addon"
EarlyLang == "ab"
WeekNames == {"2025w01"}

\* sort order of the directory names (lexicographic comparison of the names)
NameRank(n) ==
    CASE n = "#b.json" -> 0
      [] n = "." -> 1
      [] n = "2025w01" -> 2
      [] n = "a.json" -> 3
      [] n = "ab" -> 4
      [] n = "addon" -> 5
      [] n = "en" -> 6
      [] n = "fi" -> 7
      [] OTHER -> 8

RECURSIVE InsertSorted(_, _)
InsertSorted(x, s) ==
    IF s = <<>> THEN <<x>>
    ELSE IF NameRank(x) < NameRank(Head(s)) THEN <<x>> \o s
    ELSE <<Head(s)>> \o InsertSorted(x, Tail(s))

RECURSIVE SortedList(_)
\* sorted(list): duplicates are kept
SortedList(s) == IF s = <<>> THEN <<>> ELSE InsertSorted(Head(s), SortedList(Tail(s)))

RECURSIVE SetToSorted(_)
\* sorted(set)
SetToSorted(S) ==
    IF S = {} THEN <<>>
    ELSE LET m == CHOOSE x \in S : \A y \in S : NameRank(x) <= NameRank(y)
         IN <<m>> \o SetToSorted(S \ {m})

Families == {"tts", "flat", "rvc", "parse"}

Variants(f) ==
    CASE f = "tts" -> {"tts_weekly", "tts_addon"}
      [] f = "flat" -> {"tts_flat"}
      [] f = "rvc" -> {"rvc_flat", "rvc_weekly", "rvc_addon"}
      [] f = "parse" -> {"parse"}

\* the input documents of the parsing stage: <<directory, file name>>, in
\* JSON_INPUT_DIR ("main") and JSON_INPUT_DIR_ALT ("alt")
DocSlots == {<<"main", "a.json">>, <<"main", "#b.json">>, <<"alt", "a.json">>}

\* group directories of the input root: <<top, sub>>
Slots(f) ==
    IF f = "flat" THEN {<<l, ".">> : l \in Langs}
    ELSE IF f = "parse" THEN DocSlots
    ELSE {<<AddonName, "en">>} \cup {<<l, w>> : l \in Langs, w \in WeekNames}
         \cup (IF f = "rvc" THEN {<<EarlyLang, w>> : w \in WeekNames} ELSE {})

AllSlots == Slots("flat") \cup Slots("rvc") \cup DocSlots

\* the most files a group directory holds
Cap(g) == IF g[1] = "fi" THEN 1 ELSE IF g[1] = AddonName THEN MaxItems - 1 ELSE MaxItems

NoGroup == <<>>

VARIABLES
    family,      \* which stage the input root belongs to
    cfg,         \* the settings of the .env file and of the platform
    tree,        \* input tree: group directory -> number of item files in it
                 \* (parsing stage: document -> its content)
    log_file,    \* the ledger file: sequence of lines
    pc,          \* "idle" | "run"
    processed,   \* set of keys loaded from log_file at the start of the run
    queue,       \* groups still to visit in this run
    cur,         \* group being processed, or NoGroup
    todo,        \* invocations of cur still to make
    res,         \* the invocations of cur made so far: how many, how many
                 \* exited 0 (each wrote its own output file), whether one
                 \* exited 0 (wrote_any), whether one failed
    done_pass,   \* the last group pass finished: what it invoked and did
    this_run,    \* record of the run in progress or last ended
    edited       \* the group directories that got a file since the run before
                 \* the current one ended

VARIABLES
    ck_dir,      \* the checkpoint folder: whether it exists, its listing in glob order
    ck_prefix,   \* EXP / RVC_CKPT_PREFIX
    ck_call,     \* 1: pick_latest_ckpt(dir, prefix), 2: pick_latest_ckpt(dir)
    ck_i,        \* position of the loop in the listing
    ck_best,     \* best so far: <<score, name>>, or None
    ck_pc,       \* "off" | "loop" | "done"
    ck_result    \* the checkpoint selected, or None

VARIABLES
    p_scripts,   \* script files written: <<stem, idx>>
    p_images,    \* files of the image directories
    chain,       \* position of the image resolution of the current section
    last_chain   \* the last image resolution finished in this run

VARIABLES
    fw_retries,  \* the retries argument of fetch_with_retries
    fw_attempt,  \* the loop variable attempt
    fw_pc,       \* "off" | "get" | "sleep" | "end" | "returned" | "raised"
    fw_trace,    \* the outcome of every request issued so far, in order
    fw_slept,    \* the waits done so far, in tenths of a second
    fw_last_exc, \* last_exc
    fw_result    \* what the call returned or raised

VARIABLES
    wd_variant,  \* the weekly orchestrator that lists a language directory
    wd_glob,     \* WEEK_GLOB
    wd_regex,    \* WEEK_REGEX: "none" or the pattern
    wd_entries,  \* the entries of the language directory: name -> kind
    wd_pc,       \* "off" | "glob" | "regex" | "done"
    wd_used,     \* the patterns consulted so far
    wd_result    \* week_dirs, as a set of names

VARIABLES
    it_variant,  \* the orchestrator whose item loops are followed
    it_in,       \* its inputs: the files of the groups, the voices, the
                 \* extensions gathered, the blank texts, --dry-run, whether
                 \* the scripts root exists
    it_pc,       \* "off" | "start" | "loop" | "done"
    it_queue,    \* the work items still to come, in order
    it_trace,    \* the external invocations made: the item and its exit
    it_out,      \* the output files written: path and writer
    it_generated,\* the list generated
    it_summary   \* generated_wavs.txt: absent, left by an earlier run
                 \* ("stale") or written by this run, and its lines

it_vars == <<it_variant, it_in, it_pc, it_queue, it_trace, it_out, it_generated,
             it_summary>>

parse_vars == <<p_scripts, p_images, chain, last_chain>>

wd_vars == <<wd_variant, wd_glob, wd_regex, wd_entries, wd_pc, wd_used, wd_result>>

fw_vars == <<fw_retries, fw_attempt, fw_pc, fw_trace, fw_slept, fw_last_exc, fw_result>>

orch_vars == <<family, cfg, tree, log_file, pc, processed, queue, cur,
               todo, res, done_pass, this_run, edited, parse_vars>>

ck_vars == <<ck_dir, ck_prefix, ck_call, ck_i, ck_best, ck_pc, ck_result>>

vars == <<orch_vars, ck_vars, fw_vars, wd_vars, it_vars>>

\* what a step of the TTS and RVC orchestrators leaves alone
non_orch == <<ck_vars, fw_vars, wd_vars, it_vars, parse_vars>>

\* what the steps shared with the parsing stage leave alone
non_run == <<ck_vars, fw_vars, wd_vars, it_vars, p_scripts, p_images>>

\* ------------------------------------------------------------- settings
\* LANGS / RVC_WEEKLY_LANGS / RVC_ADDON_LANGS / --lang: the language allow-list
LangLists(f) == IF f = "tts" THEN {<<>>, <<"en">>, <<"en", "en">>} ELSE {<<>>, <<"en">>}

\* models_dir/<lang>: number of *.onnx files that have their .onnx.json, and
\* the stems of the text files whose content is empty after strip()
TtsInputs ==
    {[voices |-> [l \in Langs |-> IF l = "en" THEN MaxVoices ELSE 1], blank |-> {}],
     [voices |-> [l \in Langs |-> IF l = "en" THEN 1 ELSE 0], blank |-> {1}],
     [voices |-> [l \in Langs |-> 0], blank |-> {}]}

RvcInputs == {[voices |-> [l \in Langs |-> 0], blank |-> {}]}

\* os.sep of the platform the runs execute on
Seps == {"/", "\\"}

\* RETRIES (default)
DefaultRetries == 2

\* parsing.env and the interpreter: ENABLE_HTML_SCRAPE, HAVE_BS4, RETRIES
ParseCfgs ==
    {[enable_html |-> e, have_bs4 |-> b, retries |-> DefaultRetries, fault |-> "none"] :
        e \in BOOLEAN, b \in BOOLEAN} \ {[enable_html |-> FALSE, have_bs4 |-> FALSE,
                                           retries |-> DefaultRetries, fault |-> "none"]}

\* what can be missing when a run starts: the input root directory, the
\* inference script (infer_cli.py), every checkpoint
Faults(f) == IF f = "rvc" THEN {"no_root", "no_cli", "no_ckpt"} ELSE {"no_root"}

\* WEEK_GLOB: left at its default, or set to "*" (every directory matches)
WeekGlobs == {"default", "any"}

\* RVC_OUTPUT_ROOT: left at its default, or set to another directory
OutRoots(f) == IF f = "rvc" THEN {"default", "custom"} ELSE {"default"}

Cfgs(f) ==
    IF f = "parse"
    THEN ParseCfgs \cup {[enable_html |-> TRUE, have_bs4 |-> TRUE,
                          retries |-> DefaultRetries, fault |-> "no_root"]}
    ELSE
    {c \in {[langs |-> ll, voices |-> i.voices, blank |-> i.blank, sep |-> sp,
              fault |-> "none", out_root |-> "default", week_glob |-> "default", early |-> FALSE] :
                ll \in LangLists(f), i \in (IF f = "rvc" THEN RvcInputs ELSE TtsInputs),
                sp \in Seps} :
        c.sep = "\\" => (c.langs = <<>> /\ c.blank = {})}
    \cup
    {[langs |-> <<>>, voices |-> [l \in Langs |-> IF f = "rvc" THEN 0 ELSE 1],
      blank |-> {}, sep |-> "/", fault |-> x, out_root |-> "default",
      week_glob |-> "default", early |-> FALSE] : x \in Faults(f)}
    \cup
    {[langs |-> <<>>, voices |-> [l \in Langs |-> 0], blank |-> {}, sep |-> "/",
      fault |-> "none", out_root |-> o, week_glob |-> "default", early |-> FALSE] :
        o \in OutRoots(f) \ {"default"}}
    \cup
    \* LANGS=addon, WEEK_GLOB=*, and models_dir/addon holds a valid voice
    {[langs |-> <<AddonName>>, voices |-> [l \in Langs \cup {AddonName} |-> 1],
      blank |-> {}, sep |-> "/", fault |-> "none", out_root |-> "default",
      week_glob |-> g, early |-> FALSE] :
        g \in (IF f = "tts" THEN WeekGlobs \ {"default"} ELSE {})}
    \cup
    \* the input root holds the directory EarlyLang
    {[langs |-> <<>>, voices |-> [l \in Langs |-> 0], blank |-> {}, sep |-> "/",
      fault |-> "none", out_root |-> "default", week_glob |-> "default",
      early |-> e] : e \in (IF f = "rvc" THEN {TRUE} ELSE {})}

v_now == this_run.variant

Voices(l) == IF l \in DOMAIN cfg.voices THEN cfg.voices[l] ELSE 0

\* the directory the key begins with, as path components: OUTPUT_DIR (TTS),
\* RVC_OUTPUT_ROOT (weekly and addon RVC), and in rvc_batch_infer.py always
\* Path("data") / "step3_wav-converted"
OutRootParts(v) ==
    IF v \in {"tts_weekly", "tts_addon", "tts_flat"}
    THEN <<"data", "step2_wav-tts">>
    ELSE IF v \in {"rvc_weekly", "rvc_addon"} /\ cfg.out_root = "custom"
    THEN <<"out">>
    ELSE <<"data", "step3_wav-converted">>

\* the characters of a document name, as tokens: a name can begin with "#"
NameStr(name) == IF name = "#b.json" THEN <<"#", "b.json">> ELSE <<name>>

\* the ledger key of group g: str(out_dir_rel).replace("\\", "/");
\* parsing stage: the base name of the document (p.name)
Key(v, g) ==
    IF v = "parse" THEN NameStr(g[2])
    ELSE Replace(PathStr(OutRootParts(v) \o g, cfg.sep))

\* mutant: the path looked up without the separator replacement
LookupKeyRaw(v, g) == PathStr(OutRootParts(v) \o g, cfg.sep)

\* the string looked up in the loaded set ("if key in processed")
LookupKey(v, g) == Key(v, g)

\* mutant: the path written without the separator replacement
CommitKeyRaw(v, g) == PathStr(OutRootParts(v) \o g, cfg.sep)

\* the string written to the ledger file (f.write(key + "\n"))
CommitKey(v, g) == Key(v, g)

\* mutant: the comment test inverted, so that only comment lines are kept
LoadProcessedInverted(lines) ==
    {Strip(lines[i]) : i \in {j \in DOMAIN lines :
        Strip(lines[j]) # <<>> /\ IsComment(Strip(lines[j]))}}

\* the set of keys read from the ledger file at the start of a run
LoadProcessed(lines) ==
    {Strip(lines[i]) : i \in {j \in DOMAIN lines :
        Strip(lines[j]) # <<>> /\ ~IsComment(Strip(lines[j]))}}

\* mutant: parsed.log not read
LoadParsedNone(lines) == {}

\* the set read from parsed.log: every non-blank line, stripped
LoadParsed(lines) ==
    {Strip(lines[i]) : i \in {j \in DOMAIN lines : Strip(lines[j]) # <<>>}}

\* ------------------------------------------------------------- discovery
\* the input root exists
RootExists == cfg.fault # "no_root"

TopDirs ==
    IF RootExists
    THEN {g[1] : g \in {h \in Slots(family) : h[1] = EarlyLang => cfg.early}}
    ELSE {}

AddonLangs ==
    IF RootExists THEN {g[2] : g \in {h \in Slots(family) : h[1] = AddonName}} ELSE {}

\* p.is_dir() for a directory directly under the input root
IsDir(name) == name \in TopDirs

\* the time-bucket directories of a language directory that the glob (or,
\* when the glob matches nothing, the regular expression) selects
WeekDirs(l) ==
    SetToSorted({g[2] : g \in {h \in Slots(family) :
        h[1] = l /\ (h[2] \in WeekNames \/ cfg.week_glob = "any")}})

AllowedAll(l) == TRUE

Allowed(l) == cfg.langs = <<>> \/ l \in Range(cfg.langs)

\* the variants that have a language allow-list: LANGS (tts_piper_weekly),
\* --lang (tts_piper), RVC_WEEKLY_LANGS, RVC_ADDON_LANGS
HasAllowList(v) == v \in {"tts_weekly", "tts_flat", "rvc_weekly", "rvc_addon"}

\* the language directories a variant iterates, in order
Candidates(v) ==
    CASE v = "tts_weekly" ->
            IF cfg.langs # <<>> THEN SortedList(SelectSeq(cfg.langs, IsDir))
            ELSE SetToSorted(TopDirs \ {AddonName})
      [] v = "rvc_weekly" ->
            SetToSorted({l \in TopDirs \ {AddonName} : Allowed(l)})
      [] v = "tts_addon" -> SetToSorted(AddonLangs)
      [] v = "rvc_addon" -> SetToSorted({l \in AddonLangs : Allowed(l)})
      [] v = "tts_flat" -> SetToSorted({l \in TopDirs : Allowed(l)})
      [] OTHER -> <<>>

IsTts(v) == v \in {"tts_weekly", "tts_addon", "tts_flat"}

RECURSIVE WeeklyGroups(_, _)
WeeklyGroups(v, cands) ==
    IF cands = <<>> THEN <<>>
    ELSE LET l == Head(cands)
             w == WeekDirs(l)
         IN (IF IsTts(v) /\ Voices(l) = 0 THEN <<>>
             ELSE [i \in 1..Len(w) |-> <<l, w[i]>>])
            \o WeeklyGroups(v, Tail(cands))

RECURSIVE AddonGroups(_, _)
AddonGroups(v, cands) ==
    IF cands = <<>> THEN <<>>
    ELSE LET l == Head(cands)
         IN (IF IsTts(v) /\ Voices(l) = 0 THEN <<>> ELSE << <<AddonName, l>> >>)
            \o AddonGroups(v, Tail(cands))

RECURSIVE FlatGroups(_)
FlatGroups(cands) ==
    IF cands = <<>> THEN <<>>
    ELSE (IF Voices(Head(cands)) = 0 THEN <<>> ELSE << <<Head(cands), ".">> >>)
         \o FlatGroups(Tail(cands))

\* p.exists() for a document
DocExists(g) == RootExists /\ tree[g].kind # "absent"

\* sorted(dir.glob("*.json"))
GlobJson(dir) ==
    LET names == SetToSorted({g[2] : g \in {h \in DocSlots : h[1] = dir /\ DocExists(h)}})
    IN [i \in 1..Len(names) |-> <<dir, names[i]>>]

\* targets of a run without arguments: the main directory, then the alternate
Targets == GlobJson("main") \o GlobJson("alt")

\* mutant: every existing target kept
UniqAll(tg, seen, done) == SelectSeq(tg, DocExists)

RECURSIVE Uniq(_, _, _)
\* the de-duplication loop of main(): the first document of every base name,
\* unless the base name is in the loaded set
Uniq(tg, seen, done) ==
    IF tg = <<>> THEN <<>>
    ELSE LET p == Head(tg)
             key == NameStr(p[2])
         IN IF ~DocExists(p) \/ key \in seen THEN Uniq(Tail(tg), seen, done)
            ELSE IF key \in done THEN Uniq(Tail(tg), seen \cup {key}, done)
            ELSE <<p>> \o Uniq(Tail(tg), seen \cup {key}, done)

\* sys.argv[1:] of the parsing stage: file names relative to the input
\* directories (no names: the directories are globbed)
ArgLists == {<<>>, <<"#b.json", "a.json", "a.json">>}

ArgsOf(v) == IF v = "parse" THEN ArgLists ELSE {<<>>}

\* a name given on the command line: json_dir / name, or the alternate
\* directory when only that one holds the name
Cand(name) ==
    IF ~DocExists(<<"main", name>>) /\ <<"alt", name>> \in DocSlots
          /\ DocExists(<<"alt", name>>)
    THEN <<"alt", name>>
    ELSE <<"main", name>>

\* the targets of a run started with the arguments a
TargetsOf(a) == IF a = <<>> THEN Targets ELSE [i \in DOMAIN a |-> Cand(a[i])]

\* the groups a run visits, in the order it visits them
GroupSeq(v) ==
    CASE v \in {"tts_weekly", "rvc_weekly"} -> WeeklyGroups(v, Candidates(v))
      [] v \in {"tts_addon", "rvc_addon"} -> AddonGroups(v, Candidates(v))
      [] v = "tts_flat" -> FlatGroups(Candidates(v))
      [] v = "rvc_flat" ->
            AddonGroups(v, SetToSorted(AddonLangs))
            \o WeeklyGroups(v, SetToSorted(TopDirs \ {AddonName}))
      [] v = "parse" -> TargetsOf(this_run.args)

LangOf(g) == IF g[1] = AddonName THEN g[2] ELSE g[1]

\* the kind of content a variant processes the directory g as: a week of a
\* language (sections of a weekly script) or the addon files of a language
GroupKind(v, g) ==
    IF v \in {"tts_weekly", "rvc_weekly"} THEN "weekly"
    ELSE IF v \in {"tts_addon", "rvc_addon"} THEN "addon"
    ELSE IF g[1] = AddonName THEN "addon" ELSE "weekly"

\* the language whose voices a variant uses for group g: models_dir / lang,
\* lang being the name of the directory under the input root (weekly) or
\* under addon/ (addon)
VoiceLang(v, g) == IF v = "tts_weekly" THEN g[1] ELSE LangOf(g)

\* the external invocations of one pass over group g, in order:
\* one per wav (RVC), one per non-blank text and voice (TTS)
Invocations(v, g) ==
    IF IsTts(v)
    THEN LET m == Voices(VoiceLang(v, g))
             all == [k \in 1..(tree[g] * m) |->
                        [stem |-> ((k - 1) \div m) + 1, voice |-> ((k - 1) % m) + 1]]
         IN SelectSeq(all, LAMBDA x : x.stem \notin cfg.blank)
    ELSE [k \in 1..tree[g] |-> [stem |-> k, voice |-> 0]]

\* ------------------------------------------------------------- runs
\* what is recorded about a run:
\*   variant, status   the orchestrator and how the run ended
\*   rerun      the run before it was a complete run of the same variant and
\*              the tree has not changed since
\*   prev_clean in that run every group pass that invoked had a success
\*   prev_n     the number of invocations that run made
\*   redo       the group in progress when the run before it (same variant,
\*              same tree) was interrupted
\*   startLen   number of ledger lines at the start of the run
\*   n_inv      external invocations made
\*   clean      every group pass that invoked had a success
\*   all_ok     every invocation exited 0
\*   exit       the process status of a run that returned
\*   args       the command-line targets (parsing stage)
\*   partial    the groups committed, in this run or an earlier one, by a
\*              pass in which an invocation failed
\*   writers    the groups committed, in this run or an earlier one, each
\*              with the kind of content it was processed as
\*   entered    groups whose processing began, in order
\*   passed     groups whose item loop ran to its end
\*   in_progress  the group in progress when the run was interrupted
NoRun ==
    [variant |-> "none", status |-> "none", rerun |-> FALSE, prev_clean |-> FALSE,
     prev_n |-> 0,     redo |-> NoGroup, startLen |-> 0, n_inv |-> 0, clean |-> TRUE,
     all_ok |-> TRUE, exit |-> 0, args |-> <<>>, partial |-> {}, writers |-> {},
     entered |-> <<>>, passed |-> {}, in_progress |-> NoGroup]

NoRes == [n |-> 0, ok |-> 0, any |-> FALSE, failed |-> FALSE]

NoPass == [g |-> NoGroup, res |-> NoRes, committed |-> FALSE]

NoDir == [exists |-> FALSE, files |-> <<>>]

\* documents: absent, not parseable / of the wrong shape, or an object whose
\* "sections" list holds, per section, an object without image_url ("plain"),
\* an object with image_url ("img"), a value that is no object ("nonobj") or
\* an object whose "script" is null ("nullscript")
Doc(k, secs) == [kind |-> k, secs |-> secs]

DocContents(g) ==
    IF g = <<"main", "a.json">>
    THEN {Doc("absent", <<>>), Doc("bad", <<>>), Doc("ok", <<>>),
          Doc("ok", <<"nonobj", "img", "plain">>)}
    ELSE IF g = <<"main", "#b.json">>
    THEN {Doc("absent", <<>>), Doc("ok", <<"plain">>), Doc("ok", <<"nullscript">>)}
    ELSE {Doc("absent", <<>>), Doc("ok", <<"plain">>)}

\* json_path.stem
Stem(name) == IF name = "a.json" THEN "a" ELSE "#b"

\* tried: the strategies begun for the section, in order; wrote: the kinds of
\* file opened for it ("direct", "indirect", "link"); page, cand: the markup
\* the page request returned and the element chosen from it; got: the responses to
\* the image requests of the strategies (status, content type)
NoChain == [pc |-> "none", attempt |-> 0, ext |-> "", cand |-> "none", page |-> 0,
            tried |-> <<>>, wrote |-> {}, got |-> {}]

NoLast == [doc |-> "", idx |-> 0, saved |-> "none", tried |-> <<>>, wrote |-> {},
           got |-> {}]

ParseOff ==
    /\ p_scripts = {}
    /\ p_images = {}
    /\ chain = NoChain
    /\ last_chain = NoLast

\* the files a group can hold under settings c: with a configured output
\* root or week glob only the addon group of one language is populated (the
\* number counts the files the variant that visits the directory gathers:
\* addon/en/*.txt for the addon variant, addon/en/sections/*.txt for the
\* weekly one)
Room(c, g) ==
    IF c.out_root = "custom" \/ c.week_glob = "any"
    THEN (IF g = <<AddonName, "en">> THEN MaxItems ELSE 0)
    ELSE IF c.early
    THEN (IF g[1] \in {AddonName, EarlyLang} THEN 1 ELSE 0)
    ELSE (IF g[1] = EarlyLang THEN 0 ELSE Cap(g))

\* the input trees; nothing is in a root that does not exist

Trees(f, c) ==
    IF f = "parse"
    THEN {t \in [DocSlots -> UNION {DocContents(g) : g \in DocSlots}] :
             /\ \A g \in DocSlots :
                   (t[g] \in DocContents(g))
                       /\ (c.fault = "no_root" => t[g].kind = "absent")
             \* next to a main a.json that holds sections the alternate
             \* a.json is left out (any main a.json shadows it)
             /\ (t[<<"main", "a.json">>].secs # <<>>
                    => t[<<"alt", "a.json">>].kind = "absent")}
    ELSE {t \in [Slots(f) -> 0..MaxItems] :
             \A g \in Slots(f) :
                 (t[g] <= Room(c, g)) /\ (c.fault = "no_root" => t[g] = 0)}

None == <<>>

\* the checkpoint selection at rest
CkOff ==
    /\ ck_dir = NoDir
    /\ ck_prefix = <<>>
    /\ ck_call = 1
    /\ ck_i = 1
    /\ ck_best = <<>>
    /\ ck_pc = "off"
    /\ ck_result = <<>>

\* fetch_with_retries at rest
FwOff ==
    /\ fw_retries = 0
    /\ fw_attempt = 0
    /\ fw_pc = "off"
    /\ fw_trace = <<>>
    /\ fw_slept = <<>>
    /\ fw_last_exc = None
    /\ fw_result = None

\* the listing of a language directory at rest
WdOff ==
    /\ wd_variant = "none"
    /\ wd_glob = <<>>
    /\ wd_regex = "none"
    /\ wd_entries = <<>>
    /\ wd_pc = "off"
    /\ wd_used = {}
    /\ wd_result = {}

\* the item loops at rest
ItOff ==
    /\ it_variant = "none"
    /\ it_in = <<>>
    /\ it_pc = "off"
    /\ it_queue = <<>>
    /\ it_trace = <<>>
    /\ it_out = {}
    /\ it_generated = <<>>
    /\ it_summary = [kind |-> "absent", lines |-> <<>>]

Init ==
    /\ CkOff
    /\ FwOff
    /\ WdOff
    /\ ItOff
    /\ ParseOff
    /\ family \in Families
    /\ cfg \in Cfgs(family)
    /\ tree \in Trees(family, cfg)
    /\ log_file = <<>>
    /\ pc = "idle"
    /\ processed = {}
    /\ queue = <<>>
    /\ cur = NoGroup
    /\ todo = <<>>
    /\ res = NoRes
    /\ done_pass = NoPass
    /\ this_run = NoRun
    /\ edited = {}

\* the conditions under which main() returns 1 (or dies of an exception)
\* before the first group: infer_cli.py not found, no checkpoint found, and
\* in three of the orchestrators a missing input root ("return 1" in
\* tts_piper_weekly.py and rvc_batch_infer.py, FileNotFoundError raised by
\* step2_root.iterdir() in rvc_batch_infer_weekly.py)
Fatal(v) ==
    \/ v \in {"rvc_flat", "rvc_weekly", "rvc_addon"} /\ cfg.fault \in {"no_cli", "no_ckpt"}
    \/ v \in {"tts_weekly", "rvc_flat", "rvc_weekly"} /\ ~RootExists

\* a run that ends before the first group with status 1
FailRun(v) ==
    /\ pc = "idle"
    /\ v \in Variants(family)
    /\ Fatal(v)
    /\ this_run' = [NoRun EXCEPT !.variant = v, !.status = "failed", !.exit = 1,
                                 !.partial = this_run.partial,
                                 !.writers = this_run.writers,
                                 !.startLen = Len(log_file)]
    /\ edited' = {}
    /\ UNCHANGED <<ck_vars, fw_vars, wd_vars, it_vars, parse_vars, family, cfg, tree, log_file, pc, processed, queue,
                   cur, todo, res, done_pass>>

\* mutant: status 1 when an item failed
ExitIfFailed(run) == IF run.all_ok THEN 0 ELSE 1

\* the status main() returns after the loop over the groups
ExitStatus(run) == 0

\* main() up to the first group: load the ledger, discover the groups
StartRun(v, a) ==
    /\ pc = "idle"
    /\ v \in Variants(family)
    /\ a \in ArgsOf(v)
    /\ ~Fatal(v)
    /\ pc' = "run"
    /\ processed' = IF v = "tts_flat" THEN {}
                     ELSE IF v = "parse" THEN LoadParsed(log_file)
                     ELSE LoadProcessed(log_file)
    /\ LET same == this_run.variant = v /\ this_run.args = a /\ edited = {}
       IN this_run' = [NoRun EXCEPT
              !.variant = v, !.status = "running", !.args = a,
              !.partial = this_run.partial, !.writers = this_run.writers,
              !.rerun = same /\ this_run.status = "complete",
              !.prev_clean = same /\ this_run.status = "complete" /\ this_run.clean,
              !.prev_n = IF same /\ this_run.status = "complete"
                         THEN this_run.n_inv ELSE 0,
              !.redo = IF same /\ this_run.status = "aborted"
                       THEN this_run.in_progress ELSE NoGroup,
              !.startLen = Len(log_file)]
    /\ queue' = IF v = "parse" THEN Uniq(TargetsOf(a), {}, processed') ELSE GroupSeq(v)
    /\ cur' = NoGroup
    /\ todo' = <<>>
    /\ res' = NoRes
    /\ done_pass' = NoPass
    /\ chain' = NoChain
    /\ last_chain' = NoLast
    /\ UNCHANGED <<non_run, family, cfg, tree, log_file, edited>>

\* loop head: skip on ledger hit, skip an empty group, or enter the group
NextGroup ==
    /\ pc = "run"
    /\ v_now # "parse"
    /\ cur = NoGroup
    /\ queue # <<>>
    /\ LET g == Head(queue)
       IN /\ queue' = Tail(queue)
          /\ IF v_now # "tts_flat" /\ LookupKey(v_now, g) \in processed
             THEN UNCHANGED <<cur, todo, this_run>>
             ELSE IF tree[g] = 0
             THEN UNCHANGED <<cur, todo, this_run>>
             ELSE /\ cur' = g
                  /\ todo' = Invocations(v_now, g)
                  /\ this_run' = [this_run EXCEPT !.entered = Append(@, g)]
    /\ res' = NoRes
    /\ UNCHANGED <<non_orch, family, cfg, tree, log_file, pc, processed, done_pass, edited>>

\* mutant: a non-zero exit leaves the item loop ("break" for "continue")
RestAfterBreak(ok, td) == IF ok THEN Tail(td) ELSE <<>>

\* the items left after an invocation: a non-zero exit is logged and the
\* loop continues with the next item
RestAfter(ok, td) == Tail(td)

\* subprocess.run(cmd) for the next item of the group; ok: exit status 0
Invoke(ok) ==
    /\ pc = "run"
    /\ v_now # "parse"
    /\ cur # NoGroup
    /\ todo # <<>>
    /\ res' = [n |-> res.n + 1, ok |-> res.ok + (IF ok THEN 1 ELSE 0),
                any |-> res.any \/ ok, failed |-> res.failed \/ ~ok]
    /\ todo' = RestAfter(ok, todo)
    /\ this_run' = [this_run EXCEPT !.n_inv = @ + 1, !.all_ok = @ /\ ok]
    /\ UNCHANGED <<non_orch, family, cfg, tree, log_file, pc, processed, queue, cur,
                   done_pass, edited>>

\* mutant: the flag is cleared again by a failing item
wrote_all == res.any /\ ~res.failed

\* wrote_any / wrote: set by every invocation that exits 0
wrote_any == res.any

\* mutant: the ledger file opened with mode "w"
CommitRewrite(lines, key) == <<key>>

\* the ledger file after "if wrote_any: f.write(key + '\n')" (mode "a")
Commit(lines, key) == Append(lines, key)

\* mutant: the committed key joins the in-memory set
KeysAfterCommitGrown(set, key) == set \cup {key}

\* the in-memory set after a commit: the key is written to the file only
KeysAfterCommit(set, key) == set

\* mutant: a group without a success ends the run
QueueAfterStop(r, q) == IF r.n = 0 \/ r.any THEN q ELSE <<>>

\* the groups still to visit after a group: the loop over the groups goes on
\* whatever the group's invocations returned
QueueAfter(r, q) == q

\* end of the item loop of a group
FinishGroup ==
    /\ pc = "run"
    /\ v_now # "parse"
    /\ cur # NoGroup
    /\ todo = <<>>
    /\ LET commit == wrote_any /\ v_now # "tts_flat"
       IN /\ log_file' = IF commit
                         THEN Commit(log_file, CommitKey(v_now, cur))
                         ELSE log_file
          /\ done_pass' = [g |-> cur, res |-> res, committed |-> log_file' # log_file]
          /\ processed' = IF commit THEN KeysAfterCommit(processed, CommitKey(v_now, cur))
                          ELSE processed
    /\ this_run' = [this_run EXCEPT !.clean = @ /\ (res.n = 0 \/ wrote_any),
                                    !.passed = @ \cup {cur},
                                    !.partial = IF log_file' # log_file /\ res.failed
                                                THEN @ \cup {cur} ELSE @,
                                    !.writers = IF log_file' # log_file
                                                THEN @ \cup {<<GroupKind(v_now, cur), cur>>}
                                                ELSE @]
    /\ cur' = NoGroup
    /\ res' = NoRes
    /\ queue' = QueueAfter(res, queue)
    /\ UNCHANGED <<non_orch, family, cfg, tree, pc, todo, edited>>

\* the summary and "return 0"
EndRun ==
    /\ pc = "run"
    /\ cur = NoGroup
    /\ queue = <<>>
    /\ pc' = "idle"
    /\ this_run' = [this_run EXCEPT !.status = "complete", !.entered = <<>>,
                                    !.exit = ExitStatus(this_run)]
    /\ processed' = {}
    /\ done_pass' = NoPass
    /\ edited' = {}
    /\ last_chain' = NoLast
    /\ UNCHANGED <<non_run, family, cfg, tree, log_file, queue, cur, todo, res, chain>>

\* the process ends while the run is in progress: nothing after the current
\* statement is executed
Dies(how) ==
    /\ pc' = "idle"
    /\ this_run' = [NoRun EXCEPT !.variant = v_now, !.status = how,
                                 !.args = this_run.args, !.partial = this_run.partial,
                                 !.writers = this_run.writers,
                                 !.startLen = this_run.startLen,
                                 !.in_progress = cur]
    /\ cur' = NoGroup
    /\ queue' = <<>>
    /\ todo' = <<>>
    /\ res' = NoRes
    /\ processed' = {}
    /\ done_pass' = NoPass
    /\ edited' = {}
    /\ chain' = NoChain
    /\ last_chain' = NoLast

\* KeyboardInterrupt or kill while the run is in progress
Abort ==
    /\ pc = "run"
    /\ Dies("aborted")
    /\ UNCHANGED <<non_run, family, cfg, tree, log_file>>

\* ------------------------------------------------------------- parsing
\* A content type is <<type, subtype>>.
Cts == {<<"image", "png">>, <<"image", "jpeg">>, <<"text", "html">>,
        <<"application", "octet-stream">>}

\* is_image_content_type: ct.lower().startswith("image/")
IsImageCt(ct) == ct[1] = "image"

\* guess_ext_from_content_type
GuessExt(ct) ==
    CASE ct = <<"image", "png">> -> "png"
      [] ct = <<"image", "jpeg">> -> "jpg"
      [] OTHER -> "bin"

\* "text/html" in ct or "application/xhtml" in ct or "text/plain" in ct
TextLike(ct) == ct \in {<<"text", "html">>, <<"application", "xhtml">>, <<"text", "plain">>}

\* the markup of a page: the og:image and twitter:image meta tags ("none": no
\* such tag, "empty": the tag without content, "url": with content) and the
\* img elements in document order (snap: class tv-snapshot-image, src: has src)
Img(sn, sr) == [snap |-> sn, src |-> sr]

PageList ==
    <<[og |-> "url", tw |-> "url", imgs |-> <<>>],
      [og |-> "empty", tw |-> "url", imgs |-> <<Img(TRUE, TRUE)>>],
      [og |-> "none", tw |-> "empty", imgs |-> <<Img(FALSE, TRUE), Img(TRUE, TRUE)>>],
      [og |-> "none", tw |-> "none", imgs |-> <<Img(TRUE, FALSE), Img(FALSE, TRUE)>>],
      [og |-> "none", tw |-> "none", imgs |-> <<Img(FALSE, TRUE)>>],
      [og |-> "none", tw |-> "none", imgs |-> <<>>]>>

ImgName(i) == IF i = 1 THEN "img1" ELSE "img2"

\* mutant: the twitter-card tag looked at before the open-graph tag
ResolveTwitterFirst(page) ==
    IF page.tw = "url" THEN "tw" ELSE IF page.og = "url" THEN "og" ELSE "none"

\* resolve_snapshot_from_html: the element whose reference is returned
Resolve(page) ==
    LET snaps == {i \in DOMAIN page.imgs : page.imgs[i].snap}
        first == CHOOSE i \in snaps : \A j \in snaps : i <= j
    IN IF ~cfg.have_bs4 THEN "none"
       ELSE IF page.og = "url" THEN "og"
       ELSE IF page.tw = "url" THEN "tw"
       ELSE IF snaps # {} /\ page.imgs[first].src THEN ImgName(first)
       ELSE IF page.imgs # <<>> /\ page.imgs[1].src THEN ImgName(1)
       ELSE "none"

\* what sess.get can do: raise, or return a response (page: index of the
\* markup in PageList, 0 for an empty body; the body of a response to an image
\* request is not read as markup)
NoCt == <<"", "">>

Outcomes ==
    {[kind |-> "exc", status |-> 0, ct |-> NoCt, page |-> 0]}
    \cup {[kind |-> "resp", status |-> st, ct |-> c, page |-> pg] :
             st \in {200, 404}, c \in Cts, pg \in 0..Len(PageList)}

\* a file of an image directory: <stem>/image/<idx>_<slug>.<ext>; by: the
\* strategy that opened it, whole: the download ran to its end
ImageFile(d, i, e, b, w) == [doc |-> d, idx |-> i, ext |-> e, by |-> b, whole |-> w]

\* open(path, "wb") / write_text: a file of the same path is replaced
WriteFile(files, f) ==
    {x \in files : ~(x.doc = f.doc /\ x.idx = f.idx /\ x.ext = f.ext)} \cup {f}

\* enumerate(data["sections"], start=1)
Indexed(secs) == [i \in 1..Len(secs) |-> [idx |-> i, kind |-> secs[i]]]

\* process_json_file up to the section loop
OpenDoc ==
    /\ pc = "run"
    /\ v_now = "parse"
    /\ cur = NoGroup
    /\ queue # <<>>
    /\ LET g == Head(queue)
       IN /\ queue' = Tail(queue)
          /\ IF tree[g].kind # "ok"
             THEN UNCHANGED <<cur, todo, this_run>>
             ELSE /\ cur' = g
                  /\ todo' = Indexed(tree[g].secs)
                  /\ this_run' = [this_run EXCEPT !.entered = Append(@, g)]
    /\ UNCHANGED <<ck_vars, fw_vars, wd_vars, it_vars, parse_vars, family, cfg, tree, log_file, pc, processed, res,
                   done_pass, edited>>

\* one section up to its first network request: the script file, and the
\* start of the image resolution when the section has an image_url.  The
\* script file is opened for writing before f.write(script) is evaluated, and
\* f.write raises TypeError for a script that is no string; neither
\* process_json_file nor main catches it.
Section ==
    /\ pc = "run"
    /\ v_now = "parse"
    /\ cur # NoGroup
    /\ todo # <<>>
    /\ chain.pc = "none"
    /\ LET sec == Head(todo)
       IN /\ p_scripts' = IF sec.kind = "nonobj" THEN p_scripts
                          ELSE p_scripts \cup {<<Stem(cur[2]), sec.idx>>}
          /\ IF sec.kind = "nullscript"
             THEN Dies("crashed")
             ELSE /\ IF sec.kind = "img"
                     THEN /\ chain' = [NoChain EXCEPT !.pc = "direct",
                                                      !.tried = <<"direct">>]
                          /\ this_run' = [this_run EXCEPT !.n_inv = @ + 1]
                          /\ UNCHANGED todo
                     ELSE /\ todo' = Tail(todo)
                          /\ UNCHANGED <<chain, this_run>>
                  /\ UNCHANGED <<last_chain, pc, processed, queue, cur, res,
                                 done_pass, edited>>
    /\ UNCHANGED <<ck_vars, fw_vars, wd_vars, it_vars, p_images, family, cfg, tree,
                   log_file>>

\* mutant: no placeholder after a failed resolution
NeedsLinkNever(saved) == FALSE

\* "if not saved: write_link(image_url, base)"
NeedsLink(saved) == saved = "none"

\* the end of the resolution of the current section
ChainEnds(saved, files, resp) ==
    /\ p_images' = IF NeedsLink(saved)
                   THEN WriteFile(files,
                            ImageFile(Stem(cur[2]), Head(todo).idx, "link", "link", TRUE))
                   ELSE files
    /\ chain' = NoChain
    /\ last_chain' = [doc |-> Stem(cur[2]), idx |-> Head(todo).idx, saved |-> saved,
                      tried |-> chain.tried, got |-> chain.got \cup resp,
                      wrote |-> chain.wrote \cup (IF NeedsLink(saved) THEN {"link"} ELSE {})]
    /\ todo' = Tail(todo)

\* mutant: the page strategy tried whatever the settings
HtmlAlways == TRUE

\* "if not saved and enable_html and HAVE_BS4"
HtmlEnabled == cfg.enable_html /\ cfg.have_bs4

\* a strategy returned None or raised: the page strategy comes after the
\* direct one when it is enabled and available, write_link after the last
StageFails(stage, resp) ==
    IF stage = "direct" /\ HtmlEnabled
    THEN /\ chain' = [chain EXCEPT !.pc = "html", !.attempt = 0, !.ext = "",
                                   !.tried = Append(@, "indirect"),
                                   !.got = @ \cup resp]
         /\ UNCHANGED <<p_images, last_chain, todo>>
    ELSE ChainEnds("none", p_images, resp)

\* mutant: the status code not looked at
AcceptsAnyStatus(out) == IsImageCt(out.ct)

\* "r.status_code == 200 and is_image_content_type(ct)"
Accepts(out) == out.status = 200 /\ IsImageCt(out.ct)

\* the response to the image request of a strategy, as the claims see it
Got(stage, out) ==
    [by |-> IF stage = "direct" THEN "direct" ELSE "indirect",
     success |-> out.status = 200, image |-> out.ct[1] = "image"]

\* one sess.get of fetch_with_retries, and what follows it up to the next
\* request or download
Fetch(out) ==
    /\ pc = "run"
    /\ chain.pc \in {"direct", "html", "snap"}
    /\ chain.pc # "html" => out.page = 0
    /\ IF out.kind = "exc"
       THEN IF chain.attempt < cfg.retries
            THEN /\ chain' = [chain EXCEPT !.attempt = @ + 1]
                 /\ UNCHANGED <<p_images, last_chain, todo>>
            ELSE StageFails(chain.pc, {})
       ELSE IF chain.pc = "html"
       THEN LET cand == IF out.page = 0 THEN "none" ELSE Resolve(PageList[out.page])
            IN IF (~TextLike(out.ct) /\ out.page = 0) \/ cand = "none"
               THEN StageFails("html", {})
               ELSE /\ chain' = [chain EXCEPT !.pc = "snap", !.attempt = 0, !.cand = cand,
                                              !.page = out.page]
                    /\ UNCHANGED <<p_images, last_chain, todo>>
       ELSE IF Accepts(out)
       THEN /\ p_images' = WriteFile(p_images,
                              ImageFile(Stem(cur[2]), Head(todo).idx, GuessExt(out.ct),
                                        IF chain.pc = "direct" THEN "direct" ELSE "indirect",
                                        FALSE))
            /\ chain' = [chain EXCEPT !.pc = IF chain.pc = "direct" THEN "direct_dl"
                                             ELSE "snap_dl",
                                      !.attempt = 0, !.ext = GuessExt(out.ct),
                                      !.got = @ \cup {Got(chain.pc, out)},
                                      !.wrote = @ \cup {IF chain.pc = "direct" THEN "direct"
                                                        ELSE "indirect"}]
            /\ UNCHANGED <<last_chain, todo>>
       ELSE StageFails(chain.pc, {Got(chain.pc, out)})
    /\ UNCHANGED <<ck_vars, fw_vars, wd_vars, it_vars, p_scripts, family, cfg, tree, log_file, pc, processed, queue,
                   cur, res, done_pass, this_run, edited>>

\* the iter_content loop of an accepted response; ok: it ran to its end
Download(ok) ==
    /\ pc = "run"
    /\ chain.pc \in {"direct_dl", "snap_dl"}
    /\ LET by == IF chain.pc = "direct_dl" THEN "direct" ELSE "indirect"
       IN IF ok
          THEN ChainEnds(by, WriteFile(p_images,
                   ImageFile(Stem(cur[2]), Head(todo).idx, chain.ext, by, TRUE)), {})
          ELSE StageFails(IF chain.pc = "direct_dl" THEN "direct" ELSE "snap", {})
    /\ UNCHANGED <<ck_vars, fw_vars, wd_vars, it_vars, p_scripts, family, cfg, tree, log_file, pc, processed, queue,
                   cur, res, done_pass, this_run, edited>>

\* "return True" of process_json_file and the append of main()
FinishDoc ==
    /\ pc = "run"
    /\ v_now = "parse"
    /\ cur # NoGroup
    /\ todo = <<>>
    /\ log_file' = Commit(log_file, CommitKey(v_now, cur))
    /\ processed' = KeysAfterCommit(processed, CommitKey(v_now, cur))
    /\ done_pass' = [g |-> cur, res |-> NoRes, committed |-> TRUE]
    /\ this_run' = [this_run EXCEPT !.passed = @ \cup {cur}]
    /\ cur' = NoGroup
    /\ UNCHANGED <<ck_vars, fw_vars, wd_vars, it_vars, parse_vars, family, cfg, tree, pc, queue, todo,
                   res, edited>>

\* between two runs a file appears in a group directory; parsing stage: a
\* document that has no section (or cannot be parsed) is replaced by one that
\* has a section
AddItem(g) ==
    /\ pc = "idle"
    /\ g \in Slots(family)
    /\ RootExists
    /\ IF family = "parse"
       THEN /\ tree[g].kind # "absent" /\ tree[g].secs = <<>>
            /\ tree' = [tree EXCEPT ![g] = Doc("ok", <<"plain">>)]
       ELSE /\ tree[g] < Room(cfg, g)
            /\ tree' = [tree EXCEPT ![g] = @ + 1]
    /\ edited' = edited \cup {g}
    /\ UNCHANGED <<non_orch, family, cfg, log_file, pc, processed, queue, cur, todo, res,
                   done_pass, this_run>>

Next ==
    \/ \E v \in {"tts_weekly", "tts_addon", "tts_flat", "rvc_flat", "rvc_weekly",
                 "rvc_addon", "parse"} : \E a \in ArgLists : StartRun(v, a)
    \/ \E v \in {"tts_weekly", "rvc_flat", "rvc_weekly", "rvc_addon"} : FailRun(v)
    \/ NextGroup
    \/ \E ok \in BOOLEAN : Invoke(ok)
    \/ FinishGroup
    \/ OpenDoc
    \/ Section
    \/ \E out \in Outcomes : Fetch(out)
    \/ \E ok \in BOOLEAN : Download(ok)
    \/ FinishDoc
    \/ EndRun
    \/ Abort
    \/ \E g \in AllSlots : AddItem(g)

Spec == Init /\ [][Next]_vars

\* ------------------------------------------------------------- checkpoint
\* pick_latest_ckpt and the selection in main() of the RVC orchestrators.
\* A file name is the sequence of its characters.
MaxCkpts == 3      \* files in the checkpoint folder


CkNames ==
    {<<"A", "_", "e", "5", "0", "_", "s", "1", ".", "p", "t", "h">>,
     <<"A", "_", "e", "1", "3", "0", ".", "p", "t", "h">>,
     <<"A", "_", "e", "9", "0", ".", "p", "t", "h">>,
     <<"B", "_", "e", "9", "0", ".", "p", "t", "h">>,
     <<"B", "_", "x", "_", "e", "7", ".", "p", "t", "h">>,
     <<"B", ".", "p", "t", "h">>,
     <<"A", "_", "e", "2", "0", "0", ".", "t", "x", "t">>}

CkPrefixes == {<<>>, <<"A">>, <<"B">>, <<"Z">>}

\* the listings of a folder of at most MaxCkpts files, in any order
RECURSIVE Listings(_)
Listings(n) ==
    IF n = 0 THEN {<<>>}
    ELSE LET shorter == Listings(n - 1)
         IN shorter \cup
            {Append(x[1], x[2]) :
                x \in {y \in shorter \X CkNames :
                          Len(y[1]) = n - 1 /\ y[2] \notin Range(y[1])}}

IsDigit(c) == c \in {"0", "1", "2", "3", "4", "5", "6", "7", "8", "9"}

DigitVal(c) ==
    CASE c = "0" -> 0 [] c = "1" -> 1 [] c = "2" -> 2 [] c = "3" -> 3
      [] c = "4" -> 4 [] c = "5" -> 5 [] c = "6" -> 6 [] c = "7" -> 7
      [] c = "8" -> 8 [] c = "9" -> 9

StartsWith(name, pre) == Len(pre) <= Len(name) /\ SubSeq(name, 1, Len(pre)) = pre

EndsWith(name, suf) ==
    Len(suf) <= Len(name) /\ SubSeq(name, Len(name) - Len(suf) + 1, Len(name)) = suf

\* folder.glob(f"{prefix}*.pth" if prefix else "*.pth")
GlobMatch(name, pre) ==
    /\ StartsWith(name, pre)
    /\ EndsWith(name, <<".", "p", "t", "h">>)
    /\ Len(name) >= Len(pre) + 4

RECURSIVE IntOfDigits(_, _, _)
\* int(m.group(1)): the greedy run of digits that starts at position i
IntOfDigits(name, i, acc) ==
    IF i <= Len(name) /\ IsDigit(name[i])
    THEN IntOfDigits(name, i + 1, acc * 10 + DigitVal(name[i]))
    ELSE acc

\* the positions where "_e" followed by a digit starts
EpochStarts(name) ==
    {i \in 1..(Len(name) - 2) :
        name[i] = "_" /\ name[i + 1] = "e" /\ IsDigit(name[i + 2])}

\* mutant: the pattern without the "+", so that one digit is read
ScoreOneDigit(name) ==
    IF EpochStarts(name) = {} THEN -1
    ELSE LET i == CHOOSE k \in EpochStarts(name) : \A j \in EpochStarts(name) : k <= j
         IN DigitVal(name[i + 2])

\* m = re.search(r"_e(\d+)", p.name); score = int(m.group(1)) if m else -1
Score(name) ==
    IF EpochStarts(name) = {} THEN -1
    ELSE LET i == CHOOSE k \in EpochStarts(name) : \A j \in EpochStarts(name) : k <= j
         IN IntOfDigits(name, i + 2, 0)

\* the prefix the current call globs with
CkGlobPrefix == IF ck_call = 1 THEN ck_prefix ELSE <<>>

CkInit ==
    /\ ck_dir \in {NoDir} \cup {[exists |-> TRUE, files |-> l] : l \in Listings(MaxCkpts)}
    /\ ck_prefix \in CkPrefixes
    /\ ck_call = 1
    /\ ck_i = 1
    /\ ck_best = None
    /\ ck_pc = "loop"
    /\ ck_result = None

\* "if not folder.exists(): return None" and the end of the loop:
\* "return best[1] if best else None"; main() calls a second time, without
\* the prefix, when the first call returned None
CkReturn ==
    /\ ck_pc = "loop"
    /\ ~ck_dir.exists \/ ck_i > Len(ck_dir.files)
    /\ IF ck_best # None
       THEN /\ ck_result' = ck_best[2]
            /\ ck_pc' = "done"
            /\ UNCHANGED <<ck_call, ck_i, ck_best>>
       ELSE IF ck_call = 1
       THEN /\ ck_call' = 2
            /\ ck_i' = 1
            /\ UNCHANGED <<ck_best, ck_pc, ck_result>>
       ELSE /\ ck_result' = None
            /\ ck_pc' = "done"
            /\ UNCHANGED <<ck_call, ck_i, ck_best>>
    /\ UNCHANGED <<orch_vars, fw_vars, wd_vars, it_vars, ck_dir, ck_prefix>>

\* one iteration of "for p in folder.glob(...)"
CkStep ==
    /\ ck_pc = "loop"
    /\ ck_dir.exists
    /\ ck_i <= Len(ck_dir.files)
    /\ LET p == ck_dir.files[ck_i]
       IN ck_best' = IF GlobMatch(p, CkGlobPrefix)
                        /\ (ck_best = None \/ Score(p) > ck_best[1])
                     THEN <<Score(p), p>>
                     ELSE ck_best
    /\ ck_i' = ck_i + 1
    /\ UNCHANGED <<orch_vars, fw_vars, wd_vars, it_vars, ck_dir, ck_prefix, ck_call, ck_pc, ck_result>>

OrchOff ==
    /\ ParseOff
    /\ family = "rvc"
    /\ cfg = [langs |-> <<>>, voices |-> [l \in Langs |-> 0], blank |-> {}, sep |-> "/",
              fault |-> "none", out_root |-> "default", week_glob |-> "default", early |-> FALSE]
    /\ tree = [g \in Slots("rvc") |-> 0]
    /\ log_file = <<>>
    /\ pc = "idle"
    /\ processed = {}
    /\ queue = <<>>
    /\ cur = NoGroup
    /\ todo = <<>>
    /\ res = NoRes
    /\ done_pass = NoPass
    /\ this_run = NoRun
    /\ edited = {}

InitCkpt == OrchOff /\ FwOff /\ WdOff /\ ItOff /\ CkInit

NextCkpt == CkStep \/ CkReturn

SpecCkpt == InitCkpt /\ [][NextCkpt]_vars

\* ------------------------------------------------------------- fetch
\* fetch_with_retries(sess, url, timeout, retries, stream)

\* what sess.get() can do: return a response (of any status code) or raise
Responses == {[kind |-> "response", status |-> c] : c \in {200, 404, 500}}
Exceptions == {[kind |-> "exception", exc |-> e] : e \in {"timeout", "connection"}}

\* mutant: the same wait before every retry
SleepFlat(attempt) == 5

\* time.sleep(0.5 * (attempt + 1)), in tenths of a second
SleepTenths(attempt) == 5 * (attempt + 1)

\* int(cfg_get(cfg, "RETRIES", "2")): any integer
FwInit ==
    /\ fw_retries \in -1..MaxRetries
    /\ fw_attempt = 0
    /\ fw_pc = IF 0 < fw_retries + 1 THEN "get" ELSE "end"
    /\ fw_trace = <<>>
    /\ fw_slept = <<>>
    /\ fw_last_exc = None
    /\ fw_result = None

\* one iteration of the loop: sess.get() returns, or raises
FwGet(out) ==
    /\ fw_pc = "get"
    /\ fw_trace' = Append(fw_trace, out)
    /\ IF out.kind = "response"
       THEN /\ fw_result' = out
            /\ fw_pc' = "returned"
            /\ UNCHANGED <<fw_attempt, fw_last_exc>>
       ELSE /\ fw_last_exc' = out
            /\ IF fw_attempt < fw_retries
               THEN fw_pc' = "sleep" /\ UNCHANGED fw_attempt
               ELSE /\ fw_attempt' = fw_attempt + 1
                    /\ fw_pc' = IF fw_attempt + 1 < fw_retries + 1 THEN "get" ELSE "end"
            /\ UNCHANGED fw_result
    /\ UNCHANGED <<orch_vars, ck_vars, wd_vars, it_vars, fw_retries, fw_slept>>

\* the wait of the except branch, then the next iteration
FwSleep ==
    /\ fw_pc = "sleep"
    /\ fw_slept' = Append(fw_slept, SleepTenths(fw_attempt))
    /\ fw_attempt' = fw_attempt + 1
    /\ fw_pc' = IF fw_attempt + 1 < fw_retries + 1 THEN "get" ELSE "end"
    /\ UNCHANGED <<orch_vars, ck_vars, wd_vars, it_vars, fw_retries, fw_trace, fw_last_exc, fw_result>>

\* after the loop: raise last_exc if there is one, else fall off the end
FwEnd ==
    /\ fw_pc = "end"
    /\ IF fw_last_exc # None
       THEN fw_pc' = "raised" /\ fw_result' = fw_last_exc
       ELSE fw_pc' = "returned" /\ fw_result' = None
    /\ UNCHANGED <<orch_vars, ck_vars, wd_vars, it_vars, fw_retries, fw_attempt, fw_trace, fw_slept,
                   fw_last_exc>>

InitFetch == OrchOff /\ CkOff /\ WdOff /\ ItOff /\ FwInit

NextFetch ==
    \/ \E out \in Responses \cup Exceptions : FwGet(out)
    \/ FwSleep
    \/ FwEnd

SpecFetch == InitFetch /\ [][NextFetch]_vars

\* ------------------------------------------------------------- weeks
\* The time-bucket directories of one language directory, as the weekly
\* orchestrators select them. Names and patterns are character sequences; a
\* pattern element is a character, "?", "*" or "[0-9]".

WeekDirNames ==
    {<<"2", "0", "2", "5", "w", "0", "1">>,
     <<"x", "2", "0", "2", "5", "w", "0", "1">>,
     <<"a", "b", "c", "d", "w", "0", "1">>,
     <<"w", "1">>}

\* WEEK_GLOB: the defaults of tts_piper_weekly.py and of
\* rvc_batch_infer_weekly.py, and a configured "w*"
GlobTts == <<"*", "[0-9]", "[0-9]", "[0-9]", "[0-9]", "w", "[0-9]", "[0-9]">>
GlobRvc == <<"*", "?", "?", "?", "?", "w", "?", "?">>
GlobOther == <<"w", "*">>

RECURSIVE FnMatch(_, _)
\* Path.glob of a one-component pattern against a name
FnMatch(name, pat) ==
    IF pat = <<>> THEN name = <<>>
    ELSE IF Head(pat) = "*"
    THEN FnMatch(name, Tail(pat)) \/ (name # <<>> /\ FnMatch(Tail(name), pat))
    ELSE /\ name # <<>>
         /\ CASE Head(pat) = "?" -> TRUE
              [] Head(pat) = "[0-9]" -> IsDigit(Head(name))
              [] OTHER -> Head(name) = Head(pat)
         /\ FnMatch(Tail(name), Tail(pat))

\* re.compile(r"^\d{4}w\d{2}$").match(name)
WeekRegexMatch(name) ==
    /\ Len(name) = 7
    /\ \A i \in {1, 2, 3, 4, 6, 7} : IsDigit(name[i])
    /\ name[5] = "w"

IsDirEntry(n) == wd_entries[n] = "dir"

\* mutant: the regular expression consulted whenever there is one
FallsBackAlways(dirs, regex) == regex # "none"

\* "if not week_dirs and week_pat" (week_pat is always set in the RVC script)
FallsBack(dirs, regex) == dirs = {} /\ regex # "none"

WdInit ==
    /\ wd_variant \in {"tts_weekly", "rvc_weekly"}
    /\ wd_glob \in {IF wd_variant = "tts_weekly" THEN GlobTts ELSE GlobRvc, GlobOther}
    /\ wd_regex \in (IF wd_variant = "tts_weekly" THEN {"none", "week"} ELSE {"week"})
    /\ wd_entries \in [WeekDirNames -> {"absent", "dir", "file"}]
    /\ wd_pc = "glob"
    /\ wd_used = {}
    /\ wd_result = {}

\* sorted(d for d in lang_dir.glob(week_glob) if d.is_dir())
WdGlob ==
    /\ wd_pc = "glob"
    /\ wd_result' = {n \in WeekDirNames : FnMatch(n, wd_glob) /\ IsDirEntry(n)}
    /\ wd_used' = wd_used \cup {"glob"}
    /\ wd_pc' = IF FallsBack(wd_result', wd_regex) THEN "regex" ELSE "done"
    /\ UNCHANGED <<orch_vars, ck_vars, fw_vars, it_vars, wd_variant, wd_glob, wd_regex, wd_entries>>

\* sorted(d for d in lang_dir.iterdir() if d.is_dir() and week_pat.match(d.name))
WdRegex ==
    /\ wd_pc = "regex"
    /\ wd_result' = {n \in WeekDirNames : WeekRegexMatch(n) /\ IsDirEntry(n)}
    /\ wd_used' = wd_used \cup {"regex"}
    /\ wd_pc' = "done"
    /\ UNCHANGED <<orch_vars, ck_vars, fw_vars, it_vars, wd_variant, wd_glob, wd_regex, wd_entries>>

InitWeeks == OrchOff /\ CkOff /\ FwOff /\ ItOff /\ WdInit

NextWeeks == WdGlob \/ WdRegex

SpecWeeks == InitWeeks /\ [][NextWeeks]_vars

\* ------------------------------------------------------------- items
\* One run followed item by item: which output file every invocation writes.
\* A file name is a stem (a sequence of tokens) and an extension.
File(st, e) == [stem |-> st, ext |-> e]

\* the files a group directory can hold, in sorted order: a.md, a.txt,
\* a_b.txt (TTS); x.WAV, x.wav, y.wav (RVC)
TextFiles == <<File(<<"a">>, ".md"), File(<<"a">>, ".txt"), File(<<"a", "_", "b">>, ".txt")>>

WavFiles == <<File(<<"x">>, ".WAV"), File(<<"x">>, ".wav"), File(<<"y">>, ".wav")>>

ItFiles(v) == IF IsTts(v) THEN TextFiles ELSE WavFiles

\* sorted(vdir.glob("*.onnx")) with their .onnx.json: b_v, v
VoiceLists == {<< <<"v">> >>, << <<"b", "_", "v">>, <<"v">> >>}

\* TEXT_EXTS (default ".txt"); RVC_WAV_GLOBS (default "*.wav,*.WAV", fixed in
\* rvc_batch_infer.py)
ExtSets(v) == IF IsTts(v) THEN {{".txt"}, {".txt", ".md"}} ELSE {{".wav", ".WAV"}}

\* the groups of the run, in the order the orchestrator visits them
ItGroups(v) ==
    CASE v \in {"tts_weekly", "rvc_weekly"} -> << <<"en", "2025w01">>, <<"fi", "2025w01">> >>
      [] v \in {"tts_addon", "rvc_addon"} -> << <<AddonName, "en">>, <<AddonName, "fi">> >>
      [] v = "tts_flat" -> << <<"en", ".">>, <<"fi", ".">> >>
      [] OTHER -> << <<AddonName, "en">>, <<"en", "2025w01">> >>

\* gather_files: the files of the folder that match one of the patterns,
\* without duplicates, sorted
Gather(v, present, exts) ==
    SelectSeq(ItFiles(v), LAMBDA f : f \in present /\ f.ext \in exts)

\* mutant: the output directory without the language level
ItOutDirNoLang(v, g) == <<"out_root", g[2]>>

\* out_root / lang (run_tts), out_root / lang / week, out_root / "addon" / lang
ItOutDir(v, g) == <<"out_root">> \o (IF v = "tts_flat" THEN <<g[1]>> ELSE g)

\* f"out_{stem}_{vname}.wav" (TTS), f"{w.stem}_{ckpt_base}_converted.wav" (RVC)
OutName(v, x) ==
    IF IsTts(v) THEN <<"out", "_">> \o x.file.stem \o <<"_">> \o x.voice \o <<".wav">>
    ELSE x.file.stem \o <<"_", "ckpt", "_", "converted", ".wav">>

OutPath(v, x) == [dir |-> ItOutDir(v, x.group), name |-> OutName(v, x)]

RECURSIVE Cross(_, _, _)
\* "for txt in txt_files: ... for voice in voices": the items of one group
Cross(g, files, voices) ==
    IF files = <<>> THEN <<>>
    ELSE [k \in 1..Len(voices) |-> [group |-> g, file |-> Head(files), voice |-> voices[k]]]
         \o Cross(g, Tail(files), voices)

RECURSIVE ItItems(_, _, _)
\* the work items of the run: per group, the gathered files (TTS: those whose
\* text is not empty, once per voice)
ItItems(v, in, groups) ==
    IF groups = <<>> THEN <<>>
    ELSE LET g == Head(groups)
             fs == SelectSeq(Gather(v, in.files[g], in.exts), LAMBDA f : f \notin in.blank)
         IN Cross(g, fs, IF IsTts(v) THEN in.voices ELSE << <<>> >>)
            \o ItItems(v, in, Tail(groups))

\* the inputs of a run; a scripts root that does not exist holds no file
ItInputs(v) ==
    LET F == ItFiles(v)
        G == ItGroups(v)
    IN {i \in {[files |-> (G[1] :> f1 @@ G[2] :> f2), voices |-> vs, exts |-> ex, blank |-> b,
         dry |-> d, root |-> r] :
            f1 \in {{}, {F[2]}, {F[1], F[2]}, {F[2], F[3]}},
            f2 \in {{}, {F[2]}},
            vs \in (IF IsTts(v) THEN VoiceLists ELSE {<<>>}),
            ex \in ExtSets(v),
            b \in (IF IsTts(v) THEN {{}, {F[3]}} ELSE {{}}),
            d \in (IF v = "tts_flat" THEN BOOLEAN ELSE {FALSE}),
            r \in (IF v = "tts_flat" THEN BOOLEAN ELSE {TRUE})} :
          i.root \/ (\A g \in DOMAIN i.files : i.files[g] = {})}

\* generated_wavs.txt before the run: not there, or holding the list an
\* earlier run wrote
Summaries ==
    {[kind |-> "absent", lines |-> <<>>],
     [kind |-> "stale",
      lines |-> << [group |-> <<"en", ".">>, file |-> File(<<"old">>, ".txt"),
                    voice |-> <<"v">>] >>]}

ItInit ==
    /\ it_variant \in {"tts_flat", "tts_weekly", "tts_addon", "rvc_flat", "rvc_weekly",
                        "rvc_addon"}
    /\ it_in \in ItInputs(it_variant)
    /\ it_pc = "start"
    /\ it_queue = <<>>
    /\ it_trace = <<>>
    /\ it_out = {}
    /\ it_generated = <<>>
    /\ it_summary \in {x \in Summaries : it_variant # "tts_flat" => x.kind = "absent"}

\* up to the first item: "if not scripts_root.exists(): return generated"
ItDiscover ==
    /\ it_pc = "start"
    /\ IF it_in.root
       THEN /\ it_queue' = ItItems(it_variant, it_in, ItGroups(it_variant))
            /\ it_pc' = "loop"
       ELSE /\ it_pc' = "done"
            /\ UNCHANGED it_queue
    /\ UNCHANGED <<orch_vars, ck_vars, fw_vars, wd_vars, it_variant, it_in, it_trace,
                   it_out, it_generated, it_summary>>

\* one work item: with --dry-run it is listed only; otherwise the child
\* process runs and, when it exits 0, has written the output path
ItInvoke(ok) ==
    /\ it_pc = "loop"
    /\ it_queue # <<>>
    /\ LET x == Head(it_queue)
       IN IF it_in.dry
          THEN /\ ok
               /\ it_generated' = Append(it_generated, x)
               /\ UNCHANGED <<it_trace, it_out>>
          ELSE /\ it_trace' = Append(it_trace, [item |-> x, ok |-> ok])
               /\ it_out' = IF ok THEN it_out \cup {[path |-> OutPath(it_variant, x), by |-> x]}
                             ELSE it_out
               /\ it_generated' = IF ok /\ IsTts(it_variant) THEN Append(it_generated, x)
                                   ELSE it_generated
    /\ it_queue' = Tail(it_queue)
    /\ UNCHANGED <<orch_vars, ck_vars, fw_vars, wd_vars, it_variant, it_in, it_pc,
                   it_summary>>

\* after the last group: run_tts writes generated_wavs.txt unless --dry-run
ItEnd ==
    /\ it_pc = "loop"
    /\ it_queue = <<>>
    /\ it_summary' = IF it_variant = "tts_flat" /\ ~it_in.dry
                      THEN [kind |-> "written", lines |-> it_generated]
                      ELSE it_summary
    /\ it_pc' = "done"
    /\ UNCHANGED <<orch_vars, ck_vars, fw_vars, wd_vars, it_variant, it_in, it_queue,
                   it_trace, it_out, it_generated>>

InitItems == OrchOff /\ CkOff /\ FwOff /\ WdOff /\ ItInit

NextItems == ItDiscover \/ (\E ok \in BOOLEAN : ItInvoke(ok)) \/ ItEnd

SpecItems == InitItems /\ [][NextItems]_vars

\* ------------------------------------------------------------- claims
Ledgered(v) == v \in {"tts_weekly", "tts_addon", "rvc_flat", "rvc_weekly", "rvc_addon"}

\* the stages that keep a ledger: the above and the parsing stage
KeepsLedger(v) == Ledgered(v) \/ v = "parse"

\* the number of items of a group (sections of a document)
NItems(g) == IF family = "parse" THEN Len(tree[g].secs) ELSE tree[g]

\* the ledger lines present when the current run started, and those it added
StartLines == Range(SubSeq(log_file, 1, this_run.startLen))
NewLines == SubSeq(log_file, this_run.startLen + 1, Len(log_file))

IsPrefix(a, b) == Len(a) <= Len(b) /\ SubSeq(b, 1, Len(a)) = a

NoDuplicates(q) == \A i, j \in DOMAIN q : i # j => q[i] # q[j]

RunEnded == pc = "idle" /\ this_run.status = "complete"

C3_CommitRule ==
    Ledgered(this_run.variant) =>
        /\ pc = "run" =>
              \A i \in DOMAIN NewLines :
                  \E g \in this_run.passed :
                      /\ NewLines[i] = Key(this_run.variant, g)
                      /\ NewLines[i] \notin StartLines
                      /\ tree[g] > 0
        /\ done_pass.g # NoGroup =>
              /\ done_pass.committed <=> done_pass.res.any
              /\ done_pass.res.n = Len(Invocations(this_run.variant, done_pass.g))
              /\ done_pass.committed =>
                    log_file[Len(log_file)] = Key(this_run.variant, done_pass.g)
        /\ (RunEnded /\ edited = {}) =>
              \A g \in Range(GroupSeq(this_run.variant)) :
                  (tree[g] > 0 /\ Key(this_run.variant, g) \notin StartLines)
                      => g \in this_run.passed

C3_Witness ==
    /\ Ledgered(this_run.variant)
    /\ done_pass.g # NoGroup
    /\ done_pass.committed
    /\ done_pass.res.n >= 2
    /\ done_pass.res.failed

\* C4: a failed invocation leaves the remaining items of the group scheduled:
\* at every moment of a group pass the items attempted and the items still to
\* attempt make up all items of the group, so at its end every item was
\* invoked, and the key is committed if any of them succeeded.
C4_PartialFailureIsolation ==
    /\ (cur # NoGroup /\ this_run.variant # "parse") =>
          res.n + Len(todo) = Len(Invocations(this_run.variant, cur))
    /\ (done_pass.g # NoGroup /\ Ledgered(this_run.variant)) =>
          /\ done_pass.res.n = Len(Invocations(this_run.variant, done_pass.g))
          /\ done_pass.res.any => done_pass.committed

C4_Witness ==
    /\ done_pass.g # NoGroup
    /\ Ledgered(this_run.variant)
    /\ done_pass.res.n >= 2
    /\ done_pass.res.failed
    /\ done_pass.res.any
    /\ done_pass.committed
    /\ queue # <<>>

\* the kinds of outcome that exist on disk for the section whose resolution
\* finished last: an artifact opened by the direct fetch, one opened by the
\* indirect fetch, the .link marker
OutcomesOnDisk ==
    {f.by : f \in {x \in p_images : x.doc = last_chain.doc /\ x.idx = last_chain.idx}}

\* C2 as stated: when the image resolution of a section has finished, exactly
\* one of {artifact of the direct fetch, artifact of the indirect fetch, .link
\* marker} exists for the section.
C2_ExactlyOneOutcome ==
    last_chain.idx # 0 => Cardinality(OutcomesOnDisk) = 1

\* C5 as stated: in every stage, a key a run appends to the ledger is the key
\* of a group that has at least one item (section, text file, wav file).
C5_NonPoisoning ==
    (pc = "run" /\ KeepsLedger(this_run.variant)) =>
        \A i \in DOMAIN NewLines :
            \E g \in this_run.passed :
                NewLines[i] = Key(this_run.variant, g) /\ NItems(g) > 0

\* C6: a group whose key is a line of the ledger when a run starts is not
\* entered by that run (no invocation for any of its items) and its key is not
\* appended again, also when files were added to it since its commit.
C6_SkipOnLedgerHit ==
    (pc = "run" /\ KeepsLedger(this_run.variant)) =>
        \A g \in Range(GroupSeq(this_run.variant)) :
            Key(this_run.variant, g) \in StartLines =>
                /\ cur # g
                /\ g \notin Range(this_run.entered)
                /\ g \notin this_run.passed
                /\ Key(this_run.variant, g) \notin Range(NewLines)

C6_Witness ==
    /\ pc = "run" /\ Ledgered(this_run.variant)
    /\ queue = <<>> /\ cur = NoGroup
    /\ \E g \in Range(GroupSeq(this_run.variant)) :
          /\ Key(this_run.variant, g) \in StartLines
          /\ g \in edited
          /\ tree[g] >= 2

\* C7: every step leaves the lines of the ledger in place and at most adds
\* lines at its end; an interrupt changes nothing in it.
C7_AppendOnly ==
    [][/\ IsPrefix(log_file, log_file')
       /\ (pc = "run" /\ pc' = "idle") => log_file' = log_file]_vars

C7_Witness ==
    /\ pc = "idle"
    /\ this_run.status = "aborted"
    /\ Len(log_file) >= 2
    /\ Len(log_file) > this_run.startLen

\* C8 as stated: when a run is interrupted while a group is in progress the
\* key of that group is not in the ledger, and the next complete run of the
\* same orchestrator on the same tree runs the item loop of that group again.
C8_CrashConsistency ==
    /\ (pc = "idle" /\ this_run.status = "aborted" /\ this_run.in_progress # NoGroup)
          => Key(this_run.variant, this_run.in_progress) \notin Range(log_file)
    /\ (RunEnded /\ this_run.redo # NoGroup) => this_run.redo \in this_run.passed

\* C9 as stated: within one run no key is appended twice and no group is
\* entered twice.
C9_OneCommitPerRun ==
    pc = "run" => (NoDuplicates(NewLines) /\ NoDuplicates(this_run.entered))

\* the epoch number each file name of CkNames carries (-1: none)
EpochOf(name) ==
    CASE name = <<"A", "_", "e", "5", "0", "_", "s", "1", ".", "p", "t", "h">> -> 50
      [] name = <<"A", "_", "e", "1", "3", "0", ".", "p", "t", "h">> -> 130
      [] name = <<"A", "_", "e", "9", "0", ".", "p", "t", "h">> -> 90
      [] name = <<"B", "_", "e", "9", "0", ".", "p", "t", "h">> -> 90
      [] name = <<"B", "_", "x", "_", "e", "7", ".", "p", "t", "h">> -> 7
      [] name = <<"A", "_", "e", "2", "0", "0", ".", "t", "x", "t">> -> 200
      [] OTHER -> -1

\* the files the call that returned the result had as candidates
CkCandidates == {f \in Range(ck_dir.files) : GlobMatch(f, CkGlobPrefix)}

\* C10: when the candidates of a selection all carry an epoch number and the
\* numbers are distinct, the file selected is the candidate with the highest
\* number, whatever the order of the listing.
C10_CheckpointDeterminism ==
    (/\ ck_pc = "done"
     /\ CkCandidates # {}
     /\ \A c \in CkCandidates : EpochOf(c) >= 0
     /\ \A c, d \in CkCandidates : c # d => EpochOf(c) # EpochOf(d))
        => /\ ck_result \in CkCandidates
           /\ \A c \in CkCandidates : EpochOf(c) <= EpochOf(ck_result)

C10_Witness ==
    /\ ck_pc = "done"
    /\ ck_dir.files =
          <<<<"A", "_", "e", "5", "0", "_", "s", "1", ".", "p", "t", "h">>,
            <<"A", "_", "e", "1", "3", "0", ".", "p", "t", "h">>,
            <<"A", "_", "e", "9", "0", ".", "p", "t", "h">>>>
    /\ ck_result = <<"A", "_", "e", "1", "3", "0", ".", "p", "t", "h">>

\* C11 as stated: when a prefix is configured and no file of the checkpoint
\* folder matches it, the selection ends without a checkpoint ("no checkpoint
\* found"), also when the folder holds candidates with other prefixes.
C11_PrefixFilterFails ==
    (/\ ck_pc = "done"
     /\ ck_prefix # <<>>
     /\ \A f \in Range(ck_dir.files) : ~GlobMatch(f, ck_prefix))
        => ck_result = None

RECURSIVE SumInvocations(_, _)
\* the invocations one pass over each group of the set makes
SumInvocations(v, gs) ==
    IF gs = {} THEN 0
    ELSE LET g == CHOOSE x \in gs : TRUE
         IN Len(Invocations(v, g)) + SumInvocations(v, gs \ {g})

\* C12 as stated: in a run of the weekly TTS orchestrator in which every
\* invocation succeeds, a group with N non-blank texts and M voices that is
\* not in the ledger gets exactly N x M invocations and N x M outputs and
\* exactly one ledger line; a second run on the same tree invokes nothing and
\* appends nothing.
C12_FanOut ==
    /\ (pc = "run" /\ this_run.variant = "tts_weekly" /\ this_run.all_ok
            /\ done_pass.g # NoGroup /\ cur = NoGroup) =>
          /\ done_pass.res.n = Len(Invocations("tts_weekly", done_pass.g))
          /\ done_pass.res.ok = done_pass.res.n
          /\ this_run.n_inv = SumInvocations("tts_weekly", this_run.passed)
          /\ \A g \in this_run.passed :
                Len(Invocations("tts_weekly", g)) > 0 =>
                    Cardinality({i \in DOMAIN NewLines :
                                    NewLines[i] = Key("tts_weekly", g)}) = 1
    /\ (RunEnded /\ this_run.variant = "tts_weekly" /\ this_run.rerun
            /\ this_run.prev_clean) =>
          (this_run.n_inv = 0 /\ Len(log_file) = this_run.startLen)

\* the history of a resolution is in order: the direct fetch first, the page
\* strategy after it and only when it is enabled and its parser is available
InOrder(tried) ==
    /\ tried \in {<<"direct">>, <<"direct", "indirect">>}
    /\ tried = <<"direct", "indirect">> => (cfg.enable_html /\ cfg.have_bs4)

\* C13: the strategies of an image resolution are begun in the order direct,
\* indirect; the indirect one only after the direct one saved nothing and only
\* when it is enabled and its parser available; the placeholder is written
\* only, and always, when no strategy saved an artifact, after the indirect
\* strategy when that one is enabled; after a save nothing else is attempted.
C13_ChainOrder ==
    /\ chain.pc # "none" =>
          /\ InOrder(chain.tried)
          /\ "link" \notin chain.wrote
          /\ chain.pc \in {"direct", "direct_dl"} <=> chain.tried = <<"direct">>
    /\ last_chain.idx # 0 =>
          /\ InOrder(last_chain.tried)
          /\ last_chain.saved = "direct" =>
                (last_chain.tried = <<"direct">> /\ last_chain.wrote = {"direct"})
          /\ last_chain.saved = "indirect" =>
                (last_chain.tried = <<"direct", "indirect">>
                    /\ "link" \notin last_chain.wrote)
          /\ last_chain.saved = "none" =>
                /\ "link" \in last_chain.wrote
                /\ (cfg.enable_html /\ cfg.have_bs4) =>
                      last_chain.tried = <<"direct", "indirect">>
          /\ "link" \in last_chain.wrote => last_chain.saved = "none"

C13_Witness ==
    /\ last_chain.idx # 0
    /\ last_chain.saved = "none"
    /\ last_chain.tried = <<"direct", "indirect">>
    /\ last_chain.wrote = {"direct", "indirect", "link"}

\* C14 as stated: within one run every work item (a wav, or a text paired
\* with a voice) is passed to the external executable at most once: the items
\* of a pass are distinct, the invocations of the pass consume them one by one
\* in order, and no invocation is made for a group whose items an earlier pass
\* of the same run has already been through.
C14_NoRetry ==
    (pc = "run" /\ this_run.variant # "parse") =>
        /\ (cur # NoGroup /\ res.n >= 1) => cur \notin this_run.passed
        /\ cur # NoGroup =>
              LET inv == Invocations(this_run.variant, cur)
              IN /\ \A i, j \in DOMAIN inv : i # j => inv[i] # inv[j]
                 /\ res.n <= Len(inv)
                 /\ todo = SubSeq(inv, res.n + 1, Len(inv))

\* a run has returned (it was not interrupted)
Returned == pc = "idle" /\ this_run.status \in {"complete", "failed"}

\* a configuration error: the inference script or every checkpoint is missing
\* (RVC), no voice model is found for any language (TTS)
ConfigError(v) ==
    IF IsTts(v) THEN \A l \in Langs : Voices(l) = 0
    ELSE v # "parse" /\ cfg.fault \in {"no_cli", "no_ckpt"}

\* C15 as stated: with a configuration error the run returns a non-zero
\* status before any group is processed: no group is entered, no invocation
\* is made and the ledger is unchanged.
C15_ConfigErrorsFatal ==
    /\ (pc = "run" /\ ConfigError(this_run.variant)) =>
          (cur = NoGroup /\ this_run.entered = <<>> /\ this_run.n_inv = 0)
    /\ (Returned /\ ConfigError(this_run.variant)) =>
          /\ this_run.exit # 0
          /\ this_run.n_inv = 0
          /\ Len(log_file) = this_run.startLen

\* C16: a run that made invocations returns status 0 whatever their exit
\* statuses were, also when all of them failed; a run that reached the loop
\* over the groups returns 0, and a non-zero status is returned only by a run
\* that made no invocation at all.
C16_ItemFailuresExitZero ==
    Returned =>
        /\ this_run.n_inv > 0 => this_run.exit = 0
        /\ this_run.status = "complete" => this_run.exit = 0
        /\ this_run.exit # 0 => (this_run.n_inv = 0 /\ this_run.all_ok)

C16_Witness ==
    /\ Returned
    /\ this_run.variant \in {"tts_weekly", "rvc_flat"}
    /\ this_run.n_inv >= 2
    /\ ~this_run.clean
    /\ Len(log_file) = this_run.startLen
    /\ this_run.exit = 0

\* nothing to do: the input root is missing, or no group is found, or no
\* group has an item
NothingFound(v) ==
    \/ ~RootExists
    \/ \A g \in Range(GroupSeq(v)) : NItems(g) = 0

\* C17 as stated: when the input root is missing or no group or item is
\* found (and there is no configuration error) the run makes no invocation,
\* leaves the ledger unchanged and returns status 0; a non-zero status is
\* returned only with a configuration error.
C17_DiscoveryNotFatal ==
    /\ (Returned /\ edited = {} /\ NothingFound(this_run.variant)
            /\ ~ConfigError(this_run.variant)) =>
          /\ this_run.exit = 0
          /\ this_run.n_inv = 0
          /\ Len(log_file) = this_run.startLen
    /\ (Returned /\ this_run.exit # 0) => ConfigError(this_run.variant)

\* C18: the key of a group holds no backslash and is the same string whatever
\* separator the platform joins the path with; the string written to the
\* ledger is the string looked up, and every line a run adds to the ledger
\* is such a normalized key.
C18_KeyNormalized ==
    family # "parse" =>
        /\ \A v \in Variants(family) : \A g \in Slots(family) :
              /\ "\\" \notin Range(CommitKey(v, g))
              /\ \A sp \in Seps :
                    CommitKey(v, g) = Replace(PathStr(OutRootParts(v) \o g, sp))
              /\ LookupKey(v, g) = CommitKey(v, g)
        /\ \A i \in DOMAIN log_file : "\\" \notin Range(log_file[i])

C18_Witness ==
    /\ pc = "run" /\ Ledgered(this_run.variant)
    /\ cfg.sep = "\\"
    /\ this_run.rerun
    /\ queue = <<>> /\ cur = NoGroup
    /\ \E g \in Range(GroupSeq(this_run.variant)) :
          /\ CommitKey(this_run.variant, g) \in StartLines
          /\ CommitKey(this_run.variant, g) \in processed
          /\ g \notin Range(this_run.entered)

\* C19 as stated: the RVC variants that visit a group compute the same key
\* for it, so a run skips every group whose key another variant (or itself)
\* has written to the shared ledger, whatever the configured output root.
C19_KeySchemeAgrees ==
    (family = "rvc" /\ pc = "run") =>
        \A g \in Range(GroupSeq(v_now)) : \A w \in Variants("rvc") :
            (g \in Range(GroupSeq(w)) /\ CommitKey(w, g) \in StartLines) =>
                /\ LookupKey(v_now, g) = CommitKey(w, g)
                /\ cur # g
                /\ g \notin Range(this_run.entered)

IsExc(o) == o.kind = "exception"

\* C20: a call with R >= 0 retries issues at most R + 1 requests, each after
\* the first only when the one before raised; it returns the first response
\* it gets; after R + 1 exceptions it raises the last one; the wait before
\* retry k is 0.5 * k seconds, and there is none after the last failure.
C20_BoundedRetry ==
    (fw_pc # "off" /\ fw_retries >= 0) =>
        /\ Len(fw_trace) <= fw_retries + 1
        /\ \A i \in 1..(Len(fw_trace) - 1) : IsExc(fw_trace[i])
        /\ fw_pc \in {"get", "sleep", "end"} => \A i \in DOMAIN fw_trace : IsExc(fw_trace[i])
        /\ fw_pc = "returned" =>
              /\ fw_trace # <<>>
              /\ fw_result = fw_trace[Len(fw_trace)]
              /\ ~IsExc(fw_result)
              /\ Len(fw_slept) = Len(fw_trace) - 1
        /\ fw_pc = "raised" =>
              /\ Len(fw_trace) = fw_retries + 1
              /\ \A i \in DOMAIN fw_trace : IsExc(fw_trace[i])
              /\ fw_result = fw_trace[fw_retries + 1]
              /\ Len(fw_slept) = fw_retries
        /\ fw_pc = "get" => Len(fw_slept) = Len(fw_trace)
        /\ fw_pc = "end" => (Len(fw_trace) = fw_retries + 1 /\ Len(fw_slept) = fw_retries)
        /\ fw_pc = "sleep" => Len(fw_slept) = Len(fw_trace) - 1
        /\ Len(fw_slept) <= fw_retries
        /\ \A k \in DOMAIN fw_slept : fw_slept[k] = 5 * k

C20_Witness ==
    /\ fw_pc = "raised"
    /\ fw_retries = 2
    /\ Len(fw_trace) = 3
    /\ fw_trace[1] # fw_trace[3]
    /\ fw_result = fw_trace[3]
    /\ fw_slept = <<5, 10>>

\* the sections of document g the loop has gone past
PastSections(g) == {s \in Range(Indexed(tree[g].secs)) : s \notin Range(todo)}

\* C21: a failed image resolution leaves a placeholder for its section and
\* stops nothing: the sections still to do are always a tail of the
\* document's sections, every section gone past has its script file, and
\* every document entered is reported as processed (committed).
C21_ResolutionContained ==
    (v_now = "parse" /\ pc = "run") =>
        /\ (last_chain.idx > 0 /\ last_chain.saved = "none") =>
              \E f \in p_images : /\ f.doc = last_chain.doc
                                  /\ f.idx = last_chain.idx
                                  /\ f.ext = "link"
        /\ cur # NoGroup =>
              LET all == Indexed(tree[cur].secs)
              IN /\ \E k \in 1..(Len(all) + 1) : todo = SubSeq(all, k, Len(all))
                 /\ \A s \in PastSections(cur) :
                       s.kind # "nonobj" => <<Stem(cur[2]), s.idx>> \in p_scripts
        /\ cur = NoGroup =>
              \A g \in Range(this_run.entered) :
                  g \in this_run.passed /\ CommitKey("parse", g) \in Range(NewLines)

C21_Witness ==
    /\ v_now = "parse" /\ pc = "run"
    /\ cur = NoGroup
    /\ done_pass.g = <<"main", "a.json">>
    /\ done_pass.committed
    /\ last_chain.saved = "none"
    /\ last_chain.tried = <<"direct", "indirect">>
    /\ last_chain.idx = 2
    /\ <<"a", 3>> \in p_scripts
    /\ CommitKey("parse", done_pass.g) \in Range(NewLines)

\* C22: a parsing run, whether its targets are globbed or named on the
\* command line, never opens a document whose file name was in the parse log
\* when the run started; it opens at most one document of a name, and one of
\* the alternate directory only when the main directory has none of that name.
C22_SkipByBasename ==
    (v_now = "parse" /\ pc = "run") =>
        LET opened == Range(this_run.entered) \cup (IF cur = NoGroup THEN {} ELSE {cur})
        IN /\ \A g \in opened :
                 Key("parse", g) \notin LoadParsed(SubSeq(log_file, 1, this_run.startLen))
           /\ \A i, j \in DOMAIN this_run.entered :
                 i # j => this_run.entered[i][2] # this_run.entered[j][2]
           /\ \A g \in opened : g[1] = "alt" => ~DocExists(<<"main", g[2]>>)

C22_Witness ==
    /\ v_now = "parse" /\ pc = "run"
    /\ this_run.args = <<"#b.json", "a.json", "a.json">>
    /\ queue = <<>> /\ cur = NoGroup
    /\ tree[<<"main", "#b.json">>].kind = "ok"
    /\ Key("parse", <<"main", "#b.json">>) \in LoadParsed(SubSeq(log_file, 1, this_run.startLen))
    /\ this_run.entered = << <<"main", "a.json">> >>

\* C23 as stated: a group committed in an earlier run by a pass with failed
\* items is never entered again by a later run, so nothing is invoked for
\* its failed items; and the lines a run adds to the ledger are group keys
\* only, the same whether items of the pass failed or not.
C23_FailedItemsDropped ==
    (pc = "run" /\ Ledgered(v_now)) =>
        /\ (cur # NoGroup /\ cur \notin this_run.passed) => cur \notin this_run.partial
        /\ \A i \in DOMAIN NewLines :
              \E g \in Slots(family) : NewLines[i] = CommitKey(v_now, g)

\* C24: all through a run the in-memory set of done keys is what the ledger
\* file held when the run started; the lines the run has appended since are
\* not in it and do not change the skip decisions of the remaining groups.
C24_LedgerLoadedOnce ==
    (pc = "run" /\ KeepsLedger(v_now)) =>
        LET start == SubSeq(log_file, 1, this_run.startLen)
        IN processed = IF v_now = "parse" THEN LoadParsed(start) ELSE LoadProcessed(start)

C24_Witness ==
    /\ pc = "run" /\ Ledgered(v_now)
    /\ this_run.startLen >= 1
    /\ NewLines # <<>>
    /\ queue # <<>>
    /\ cur = NoGroup
    /\ processed # LoadProcessed(log_file)

\* the groups a run of v has in its input, with something to process
Present(v, g) ==
    /\ g \in Range(GroupSeq(v))
    /\ IF v = "parse" THEN tree[g].kind = "ok" ELSE tree[g] > 0

\* C25 as stated: in every stage that reads a ledger, a line that is blank or
\* begins with "#" is not among the loaded keys, and so a group whose key is
\* the text of such a line is not skipped: the run processes it.
C25_CommentLinesIgnored ==
    (pc = "run" /\ KeepsLedger(v_now)) =>
        /\ \A i \in 1..this_run.startLen :
              (Strip(log_file[i]) = <<>> \/ IsComment(Strip(log_file[i]))) =>
                  Strip(log_file[i]) \notin processed
        /\ (queue = <<>> /\ cur = NoGroup) =>
              \A g \in Slots(family) :
                  (Present(v_now, g) /\ IsComment(Key(v_now, g))) => g \in this_run.passed

\* C26: whatever the invocations of the groups visited so far returned, the
\* groups still to visit are the rest of the discovered sequence, every
\* group gone past that has items and is not in the loaded set was
\* processed, and a pass is committed exactly on its own successes.
C26_GroupIsolation ==
    (pc = "run" /\ v_now # "parse") =>
        LET all == GroupSeq(v_now)
            n == Len(all) - Len(queue)
        IN /\ n >= 0
           /\ queue = SubSeq(all, n + 1, Len(all))
           /\ \A i \in 1..n :
                 (tree[all[i]] > 0
                     /\ (v_now = "tts_flat" \/ LookupKey(v_now, all[i]) \notin processed)) =>
                        (all[i] = cur \/ all[i] \in this_run.passed)
           /\ done_pass.g # NoGroup =>
                 done_pass.committed = (done_pass.res.any /\ v_now # "tts_flat")

C26_Witness ==
    /\ pc = "run" /\ Ledgered(v_now)
    /\ cur = NoGroup
    /\ Len(this_run.entered) = 2
    /\ this_run.entered[1] # this_run.entered[2]
    /\ ~this_run.clean
    /\ CommitKey(v_now, this_run.entered[1]) \notin Range(log_file)
    /\ done_pass.g = this_run.entered[2]
    /\ done_pass.committed
    /\ done_pass.res.failed

\* C27: a strategy opens an image file only on a response with status 200
\* and a content type that begins with image/; after any other response to
\* its image request it has opened no file; the files the strategies leave
\* carry an image extension.
C27_DirectAcceptance ==
    LET Sound(wrote, got) ==
            /\ \A b \in {"direct", "indirect"} :
                  b \in wrote => \E r \in got : r.by = b /\ r.success /\ r.image
            /\ \A r \in got : ~(r.success /\ r.image) => r.by \notin wrote
    IN /\ Sound(chain.wrote, chain.got)
       /\ Sound(last_chain.wrote, last_chain.got)
       /\ \A f \in p_images : f.by \in {"direct", "indirect"} => f.ext \in {"png", "jpg"}

C27_Witness ==
    /\ last_chain.saved = "indirect"
    /\ last_chain.wrote = {"indirect"}
    /\ last_chain.got = {[by |-> "direct", success |-> FALSE, image |-> TRUE],
                         [by |-> "indirect", success |-> TRUE, image |-> TRUE]}
    /\ \E f \in p_images : f.by = "indirect" /\ f.whole /\ f.idx = last_chain.idx

\* C28: the element fetched for a page is the open-graph tag if it has
\* content, else the twitter-card tag if it has content, else the first
\* snapshot-class img if it has a src, else the first img if it has a src;
\* one element is chosen per page, and while it is fetched and after its
\* fetch fails no other element and no other page is taken up.
C28_CandidatePriority ==
    /\ [](chain.pc \in {"snap", "snap_dl"} =>
            LET page == PageList[chain.page]
                snaps == {i \in DOMAIN page.imgs : page.imgs[i].snap}
                c == chain.cand
            IN /\ c \in {"og", "tw", "img1", "img2"}
               /\ c = "og" => page.og = "url"
               /\ c = "tw" => (page.og # "url" /\ page.tw = "url")
               /\ \A i \in 1..2 : c = ImgName(i) =>
                     /\ page.og # "url" /\ page.tw # "url"
                     /\ i \in DOMAIN page.imgs /\ page.imgs[i].src
                     /\ \/ (i \in snaps /\ \A j \in snaps : i <= j)
                        \/ (i = 1 /\ \A j \in snaps : (\A k \in snaps : j <= k)
                                                          => ~page.imgs[j].src))
    /\ [][chain.pc \in {"snap", "snap_dl"} =>
            /\ chain'.pc \in {"snap", "snap_dl", "none"}
            /\ chain'.pc # "none" => (chain'.cand = chain.cand /\ chain'.page = chain.page)
            /\ chain'.tried = IF chain'.pc = "none" THEN <<>> ELSE chain.tried]_vars

C28_Witness ==
    /\ chain.pc = "snap_dl"
    /\ chain.page = 3
    /\ chain.cand = "img2"
    /\ chain.tried = <<"direct", "indirect">>

\* C29: the time-bucket groups of a language directory are its
\* sub-directories that match the glob; the regular expression is consulted
\* only when the glob matched no directory (TTS: and a regex is configured),
\* and then selects the groups; an entry that is no directory, or matches
\* neither pattern, is never selected.
C29_WeekDiscovery ==
    wd_pc = "done" =>
        LET globbed == {n \in WeekDirNames : FnMatch(n, wd_glob) /\ wd_entries[n] = "dir"}
        IN /\ globbed # {} => (wd_result = globbed /\ "regex" \notin wd_used)
           /\ "regex" \in wd_used => (globbed = {} /\ wd_regex # "none")
           /\ (globbed = {} /\ wd_variant = "tts_weekly" /\ wd_regex = "none") =>
                 wd_result = {}
           /\ \A n \in wd_result :
                 /\ wd_entries[n] = "dir"
                 /\ FnMatch(n, wd_glob) \/ WeekRegexMatch(n)
           /\ \A n \in WeekDirNames :
                 (~FnMatch(n, wd_glob) /\ ~WeekRegexMatch(n)) => n \notin wd_result

C29_Witness ==
    /\ wd_pc = "done"
    /\ wd_glob = GlobOther
    /\ wd_used = {"glob", "regex"}
    /\ wd_entries[<<"w", "1">>] = "file"
    /\ wd_entries[<<"a", "b", "c", "d", "w", "0", "1">>] = "dir"
    /\ wd_result = {<<"2", "0", "2", "5", "w", "0", "1">>}

\* ------------------------------------------------------------- C30
\* C30: in a run of a variant whose allow-list is non-empty, every group that
\* is entered (its items invoked) or committed, and every key the run appends
\* to the ledger, belongs to a language of the list; with an empty list every
\* language directory discovered under the input root is a candidate.
C30_AllowList ==
    (pc = "run" /\ HasAllowList(v_now)) =>
        LET lang(g) == IF v_now = "rvc_addon" THEN g[2] ELSE g[1]
            listed(g) == lang(g) \in Range(cfg.langs)
            found == CASE v_now = "rvc_addon" -> AddonLangs
                       [] v_now = "tts_flat" -> TopDirs
                       [] OTHER -> TopDirs \ {AddonName}
        IN IF cfg.langs # <<>>
           THEN /\ \A g \in Range(this_run.entered) \cup this_run.passed : listed(g)
                /\ cur # NoGroup => listed(cur)
                /\ Ledgered(v_now) =>
                      \A i \in DOMAIN NewLines :
                         \E g \in Slots(family) :
                            listed(g) /\ NewLines[i] = CommitKey(v_now, g)
           ELSE Range(Candidates(v_now)) = found

\* a weekly RVC run restricted to "en" has committed an "en" week and finished
\* its queue while a week of "fi" holds input files and is not in the ledger
C30_Witness ==
    /\ pc = "run" /\ v_now = "rvc_weekly" /\ cfg.langs = <<"en">>
    /\ queue = <<>> /\ cur = NoGroup
    /\ NewLines # <<>>
    /\ \E g \in this_run.passed : g[1] = "en"
    /\ \E w \in WeekNames :
          tree[<<"fi", w>>] > 0 /\ LookupKey("rvc_weekly", <<"fi", w>>) \notin processed

\* ------------------------------------------------------------- C31
\* C31 as stated: a weekly run (TTS or RVC) never has the top-level addon
\* directory among its language candidates, never enters a group under it
\* (no invocation on a file under it) and never appends the key of a group
\* under it, whatever the allow-list.
C31_WeeklyExcludesAddon ==
    (pc = "run" /\ v_now \in {"tts_weekly", "rvc_weekly"}) =>
        /\ AddonName \notin Range(Candidates(v_now))
        /\ cur # NoGroup => cur[1] # AddonName
        /\ \A g \in Range(this_run.entered) \cup this_run.passed : g[1] # AddonName
        /\ \A i \in DOMAIN NewLines :
              \A g \in Slots(family) :
                 g[1] = AddonName => NewLines[i] # CommitKey(v_now, g)

\* ------------------------------------------------------------- C32
\* the path a before the path b, component by component
PathBefore(a, b) ==
    \/ NameRank(a[1]) < NameRank(b[1])
    \/ a[1] = b[1] /\ NameRank(a[2]) < NameRank(b[2])

\* C32 as stated: in a run of a TTS or RVC orchestrator at most one group is
\* in progress (every group entered before the current one has finished its
\* item loop), the groups are entered in lexicographic order of their paths,
\* and the keys the run appends are those of groups in that same order.
C32_SequentialOrdered ==
    (pc = "run" /\ v_now # "parse") =>
        /\ Range(this_run.entered) \ this_run.passed \subseteq {cur}
        /\ \A i, j \in DOMAIN this_run.entered :
              i < j => PathBefore(this_run.entered[i], this_run.entered[j])
        /\ Ledgered(v_now) =>
              \A i, j \in DOMAIN NewLines :
                 i < j => \E g, h \in this_run.passed :
                             /\ NewLines[i] = CommitKey(v_now, g)
                             /\ NewLines[j] = CommitKey(v_now, h)
                             /\ PathBefore(g, h)

\* ------------------------------------------------------------- C33
\* C33: in one run two different groups never write the same output path,
\* and every output of a group is in the directory made of the output root
\* and the group's own position (language; language and time bucket;
\* "addon" and language).
C33_OutputPartition ==
    /\ \A w1, w2 \in it_out : w1.path = w2.path => w1.by.group = w2.by.group
    /\ \A w \in it_out :
          LET g == w.by.group
              d == w.path.dir
          IN /\ d[1] = "out_root"
             /\ IF it_variant = "tts_flat" THEN Len(d) = 2 /\ d[2] = g[1]
                ELSE Len(d) = 3 /\ d[2] = g[1] /\ d[3] = g[2]

\* a finished run in which two groups each wrote an output of the same name
C33_Witness ==
    /\ it_pc = "done"
    /\ \E w1, w2 \in it_out :
          w1.by.group # w2.by.group /\ w1.path.name = w2.path.name

\* ------------------------------------------------------------- C34
\* C34 as stated: when run_tts has returned, with --dry-run no external
\* invocation was made, the summary file was not written and the returned
\* list has one entry for every pair of a non-empty text and a valid voice;
\* without --dry-run the returned list is the items whose invocation exited
\* 0, in processing order, and the summary file holds that list.
C34_DryRun ==
    (it_variant = "tts_flat" /\ it_pc = "done") =>
        LET G == Range(ItGroups(it_variant))
            pairs == {x \in [group : G, file : Range(TextFiles), voice : Range(it_in.voices)] :
                         /\ x.file \in it_in.files[x.group]
                         /\ x.file.ext \in it_in.exts
                         /\ x.file \notin it_in.blank}
            oks == SelectSeq(it_trace, LAMBDA t : t.ok)
        IN IF it_in.dry
           THEN /\ it_trace = <<>>
                /\ it_summary.kind # "written"
                /\ Range(it_generated) = pairs
                /\ Len(it_generated) = Cardinality(pairs)
           ELSE /\ it_generated = [i \in 1..Len(oks) |-> oks[i].item]
                /\ it_summary.lines = it_generated

\* ------------------------------------------------------------- C35
\* C35 as stated: within one group two different work items never write the
\* same output path.
C35_DistinctOutputs ==
    \A w1, w2 \in it_out :
        (w1.by.group = w2.by.group /\ w1.by # w2.by) => w1.path # w2.path

\* ------------------------------------------------------------- C36
\* C36 as stated: among the groups of the variants that write to one ledger
\* file, two different groups (a different directory, or a directory
\* processed as a different kind of content) never have the same key; and a
\* run skips a group on a ledger hit only when that same group was committed.
C36_KeyInjective ==
    (family \in {"tts", "rvc"} /\ pc = "run") =>
        /\ \A v \in Variants(family) :
              \A g1 \in Range(GroupSeq(v_now)), g2 \in Range(GroupSeq(v)) :
                 Key(v_now, g1) = Key(v, g2) =>
                    (g1 = g2 /\ GroupKind(v_now, g1) = GroupKind(v, g2))
        /\ \A g \in Range(GroupSeq(v_now)) :
              LookupKey(v_now, g) \in processed =>
                 <<GroupKind(v_now, g), g>> \in this_run.writers

\* ------------------------------------------------------------- C37
\* C37 as stated: in every state reached from an empty ledger by complete and
\* interrupted runs of the variants that share the ledger file, no key is on
\* more than one line of the ledger.
C37_NoDuplicateLines ==
    \A i, j \in DOMAIN log_file : log_file[i] = log_file[j] => i = j

\* ------------------------------------------------------------- C38
\* a document that fails: it is not parseable or has no "sections" list, or
\* one of its sections has a script that is no string
WrongShape(g) == tree[g].kind = "bad" \/ "nullscript" \in Range(tree[g].secs)

\* the documents the current run set out to process, in order
Planned ==
    Uniq(TargetsOf(this_run.args), {},
         LoadParsed(SubSeq(log_file, 1, this_run.startLen)))

\* C38 as stated: no document ends a run of the parsing stage; of the
\* documents a run has gone through, one that cannot be parsed or has the
\* wrong shape is not recorded by the run, has no script file and is in the
\* work list of the next run, and every other one is processed and recorded.
C38_DocIsolation ==
    family = "parse" =>
        /\ this_run.status # "crashed"
        /\ pc = "run" =>
              LET n == Len(Planned) - Len(queue)
              IN /\ n >= 0
                 /\ queue = SubSeq(Planned, n + 1, Len(Planned))
                 /\ \A i \in 1..n :
                       LET g == Planned[i]
                       IN IF WrongShape(g)
                          THEN /\ Key("parse", g) \notin Range(NewLines)
                               /\ \A f \in p_scripts : f[1] # Stem(g[2])
                               /\ g \in Range(Uniq(TargetsOf(this_run.args), {},
                                                   LoadParsed(log_file)))
                          ELSE \/ g = cur
                               \/ /\ g \in this_run.passed
                                  /\ Key("parse", g) \in Range(NewLines)

\* ------------------------------------------------------------- C39
\* the images of document g that are left as a placeholder
Placeholders(g) == {f \in p_images : f.doc = Stem(g[2]) /\ f.by = "link"}

\* the object-valued sections of document g
ObjectSections(g) == {s \in Range(Indexed(tree[g].secs)) : s.kind # "nonobj"}

\* C39: in the parsing stage, the step that follows the last section of a
\* document records the document, whatever files its images ended as; a run
\* never opens a document whose name was in the log when it started, so that
\* no image of a recorded document is requested again; and a document a run
\* has recorded has one script file per object-valued section and no other.
C39_PlaceholdersTerminal ==
    [][family = "parse" =>
          /\ (pc = "run" /\ cur # NoGroup /\ todo = <<>> /\ pc' = "run") =>
                (cur' = NoGroup /\ Key("parse", cur) \in Range(NewLines)')
          /\ (pc' = "run" /\ cur' # NoGroup) =>
                (Key("parse", cur) \notin StartLines)'
          /\ \A g \in this_run.passed' :
                {f[2] : f \in {x \in p_scripts' : x[1] = Stem(g[2])}}
                    = {s.idx : s \in ObjectSections(g)}]_vars

\* a later run has ended without a request while the image of a recorded
\* document is a placeholder
C39_Witness ==
    /\ family = "parse"
    /\ RunEnded
    /\ this_run.n_inv = 0
    /\ \E g \in DocSlots :
          /\ Key("parse", g) \in StartLines
          /\ Placeholders(g) # {}
          /\ g \in Range(TargetsOf(this_run.args))

\* ------------------------------------------------------------- C40
\* a step of a run other than its interruption
RunStep ==
    \/ NextGroup
    \/ \E ok \in BOOLEAN : Invoke(ok)
    \/ FinishGroup
    \/ OpenDoc
    \/ Section
    \/ \E out \in Outcomes : Fetch(out)
    \/ \E ok \in BOOLEAN : Download(ok)
    \/ FinishDoc
    \/ EndRun

\* what is left of the resolution of one image: the stages still ahead and
\* the requests the current stage may still make
ChainLeft ==
    LET R == cfg.retries + 1
        stage == CASE chain.pc = "direct" -> 4
                   [] chain.pc = "direct_dl" -> 3
                   [] chain.pc = "html" -> 2
                   [] chain.pc = "snap" -> 1
                   [] OTHER -> 0
    IN IF chain.pc = "none" THEN 5 * R ELSE stage * R + (R - 1 - chain.attempt)

\* a bound on the steps a run still takes
Left ==
    IF pc # "run" THEN 0
    ELSE IF family = "parse"
    THEN LET perSection == 5 * (cfg.retries + 1) + 1
         IN 1 + Len(queue) * (4 * perSection + 2)
              + (IF cur = NoGroup THEN 0 ELSE 1 + Len(todo) * perSection + ChainLeft)
    ELSE 1 + Len(queue) * (MaxItems * MaxVoices + 2)
           + (IF cur = NoGroup THEN 0 ELSE 1 + Len(todo))

\* every group the run discovered was skipped on a ledger hit, was empty (or
\* a document that is rejected), or was gone through, and each item was
\* passed to the executable once
Handled ==
    IF family = "parse"
    THEN \A g \in Range(Planned) : tree[g].kind # "ok" \/ g \in this_run.passed
    ELSE /\ \A g \in Range(GroupSeq(v_now)) :
               \/ v_now # "tts_flat" /\ LookupKey(v_now, g) \in processed
               \/ tree[g] = 0
               \/ g \in this_run.passed
         /\ this_run.n_inv = SumInvocations(v_now, this_run.passed)

\* C40 as stated: a run that is not interrupted can always take a step,
\* every step brings it nearer to its end, no request is made more than
\* retries+1 times, and when the run ends every discovered group was
\* skipped, found empty, or had each of its items attempted exactly once.
C40_Termination ==
    [][(pc = "run" /\ this_run.status' # "aborted") =>
          /\ ENABLED RunStep
          /\ Left' < Left
          /\ family = "parse" => (chain.attempt <= cfg.retries)'
          /\ pc' = "idle" => Handled]_vars

====
